---------------------------- MODULE Spec2Model ----------------------------
(***************************************************************************)
(* Document Compliance Checker: the file validator (services/security.py), *)
(* the result cache (services/cache.py), the text patcher                  *)
(* (services/modify.py), the issue enrichment                              *)
(* (services/context_clarity.py) and the /analyze and /modify handlers     *)
(* (main.py) that sequence them.                                           *)
(*                                                                         *)
(* A byte buffer is [bytes |-> <<b1, ..., bn>>, pad |-> k]: the bytes      *)
(* b1..bn followed by k filler bytes 0x00.  The filler byte belongs to no  *)
(* signature and to no pattern the code searches for, so a buffer of       *)
(* 50 MiB is written down without enumerating it.  A byte is a one-        *)
(* character string ("x03" stands for the byte 0x03, and so on).  A        *)
(* filename is a sequence of one-character strings.                        *)
(***************************************************************************)
EXTENDS Integers, Sequences, FiniteSets, TLC

VARIABLES
    v_content,      \* validator harness: the buffer handed to validate_file
    v_filename,     \* validator harness: the filename handed to validate_file
    v_result,       \* validator harness: what the validator returned, or NotCalled
    files,          \* cache directory: path of a file -> [mtime, text]
    now,            \* time.time(), in seconds
    last,           \* the last cache operation or request: arguments and outcome
    enabled,        \* context_analyzer.enabled: an OpenAI API key is configured
    p_text,         \* patcher harness: the text handed to the patcher
    p_issues,       \* patcher harness: the issue list handed to the patcher
    p_result,       \* patcher harness: what the patcher returned, or NotCalled
    e_issues,       \* enrichment harness: the issues handed to enhance_grammar_analysis
    e_result,       \* enrichment harness: what it returned, or NotCalled
    s_bytes,        \* concurrent stores: the text of the entry's file, in units
    s_writers,      \* concurrent stores: where each call of set is, and its data
    s_order,        \* concurrent stores: the calls of set, in the order they closed
    v_again,        \* validator harness: what a second call on the same input returned
    r_sweep,        \* racing calls: where the call of clear_all/clear_expired is
    r_lookup,       \* racing calls: where the call of get is
    r_store,        \* racing calls: where the call of set is
    m_text,         \* /modify harness: the text extracted from the upload
    m_issues,       \* /modify harness: the enhanced issues of that text
    m_result,       \* /modify harness: what the enhanced correction did, or NotCalled
    a_stored        \* /analyze history: path -> when and what /analyze last stored

v_vars == <<v_content, v_filename, v_result>>
p_vars == <<p_text, p_issues, p_result>>
e_vars == <<e_issues, e_result>>
s_vars == <<s_bytes, s_writers, s_order>>
r_vars == <<r_sweep, r_lookup, r_store>>
m_vars == <<m_text, m_issues, m_result>>
x_vars == <<r_vars, m_vars, a_stored>>
h_vars == <<p_vars, e_vars, s_vars, v_again, x_vars>>
vars   == <<v_content, v_filename, v_result, files, now, last, enabled, h_vars>>

NotCalled == [called |-> FALSE]

\* The patcher harness has not been given anything
PatchIdle ==
    /\ p_text = <<>>
    /\ p_issues = <<>>
    /\ p_result = NotCalled

\* The enrichment harness has not been given anything
EnhanceIdle ==
    /\ e_issues = <<>>
    /\ e_result = NotCalled

\* No call of set is under way
StoresIdle ==
    /\ s_bytes = <<>>
    /\ s_writers = <<>>
    /\ s_order = <<>>

\* No racing call is under way
RaceIdle ==
    /\ r_sweep = [pc |-> "idle"]
    /\ r_lookup = [pc |-> "idle"]
    /\ r_store = [pc |-> "idle"]

\* The /modify harness has not been given anything
ModifyIdle ==
    /\ m_text = <<>>
    /\ m_issues = <<>>
    /\ m_result = NotCalled

\* No /analyze request is on record
NothingStored == a_stored = <<>>

OthersIdle == RaceIdle /\ ModifyIdle /\ NothingStored

HarnessIdle ==
    PatchIdle /\ EnhanceIdle /\ StoresIdle /\ v_again = NotCalled /\ OthersIdle

---------------------------------------------------------------------------
(* Bytes and strings *)

UpperToLower ==
    [A |-> "a", B |-> "b", C |-> "c", D |-> "d", E |-> "e", F |-> "f",
     G |-> "g", H |-> "h", I |-> "i", J |-> "j", K |-> "k", L |-> "l",
     M |-> "m", N |-> "n", O |-> "o", P |-> "p", Q |-> "q", R |-> "r",
     S |-> "s", T |-> "t", U |-> "u", V |-> "v", W |-> "w", X |-> "x",
     Y |-> "y", Z |-> "z"]

\* bytes.lower() / str.lower() on one ASCII character
LowerChar(c) == IF c \in DOMAIN UpperToLower THEN UpperToLower[c] ELSE c

\* bytes.lower() / str.lower() on a sequence
Lower(s) == [i \in 1..Len(s) |-> LowerChar(s[i])]

\* len(content)
ContentLen(content) == Len(content.bytes) + content.pad

\* content.lower(): the filler byte 0x00 has no case
ContentLower(content) == [bytes |-> Lower(content.bytes), pad |-> content.pad]

\* content.startswith(prefix), for a prefix that holds no filler byte
StartsWith(content, prefix) ==
    /\ Len(content.bytes) >= Len(prefix)
    /\ SubSeq(content.bytes, 1, Len(prefix)) = prefix

\* pattern in content, for a non-empty pattern that holds no filler byte
Contains(content, pattern) ==
    \E i \in 1..Len(content.bytes) :
        /\ i + Len(pattern) - 1 <= Len(content.bytes)
        /\ SubSeq(content.bytes, i, i + Len(pattern) - 1) = pattern

---------------------------------------------------------------------------
(* SecurityValidator.__init__ *)

SigPdf   == <<"%", "P", "D", "F">>
SigZip34 == <<"P", "K", "x03", "x04">>
SigZip56 == <<"P", "K", "x05", "x06">>
SigZip78 == <<"P", "K", "x07", "x08">>

allowed_signatures ==
    [pdf |-> <<SigPdf>>, docx |-> <<SigZip34, SigZip56, SigZip78>>]

MiB == 1024 * 1024

max_file_sizes == [pdf |-> 50 * MiB, docx |-> 25 * MiB]

PatScript     == <<"<", "s", "c", "r", "i", "p", "t">>
PatJavascript == <<"j", "a", "v", "a", "s", "c", "r", "i", "p", "t", ":">>
PatVbscript   == <<"v", "b", "s", "c", "r", "i", "p", "t", ":">>
PatIframe     == <<"<", "i", "f", "r", "a", "m", "e">>
PatObject     == <<"<", "o", "b", "j", "e", "c", "t">>
PatEmbed      == <<"<", "e", "m", "b", "e", "d">>

suspicious_patterns ==
    <<PatScript, PatJavascript, PatVbscript, PatIframe, PatObject, PatEmbed>>

---------------------------------------------------------------------------
(* SecurityValidator *)

\* _detect_file_type: PK\x07\x08 is not sniffed as docx
detect_file_type(content) ==
    IF ContentLen(content) >= Len(SigPdf)
    THEN IF StartsWith(content, SigPdf) THEN "pdf"
         ELSE IF StartsWith(content, SigZip34) \/ StartsWith(content, SigZip56)
              THEN "docx"
              ELSE "unknown"
    ELSE "unknown"

\* The last component of a path, as pathlib's PurePosixPath.name: trailing
\* slashes are dropped, then everything up to the last slash.
RECURSIVE StripSlashes(_)
StripSlashes(f) ==
    IF f # <<>> /\ f[Len(f)] = "/" THEN StripSlashes(SubSeq(f, 1, Len(f) - 1))
    ELSE f

LastIndexOf(s, c) ==
    IF \E i \in 1..Len(s) : s[i] = c
    THEN CHOOSE i \in 1..Len(s) : s[i] = c /\ \A j \in (i+1)..Len(s) : s[j] # c
    ELSE 0

PathName(filename) ==
    LET f == StripSlashes(filename)
        k == LastIndexOf(f, "/")
    IN  SubSeq(f, k + 1, Len(f))

\* PurePath.suffix: from the last dot of the name on, unless that dot is the
\* first or the last character of the name
PathSuffix(filename) ==
    LET name == PathName(filename)
        i    == LastIndexOf(name, ".")
    IN  IF 1 < i /\ i < Len(name) THEN SubSeq(name, i, Len(name)) ELSE <<>>

RECURSIVE LStripDots(_)
LStripDots(s) == IF s # <<>> /\ s[1] = "." THEN LStripDots(Tail(s)) ELSE s

\* _get_file_extension: Path(filename).suffix.lower().lstrip('.')
get_file_extension(filename) == LStripDots(Lower(PathSuffix(filename)))

ExtPdf  == <<"p", "d", "f">>
ExtDocx == <<"d", "o", "c", "x">>

\* The key of allowed_signatures / max_file_sizes an extension selects
\* ("none" when the extension is no key of the table).
ExtKey(extension) ==
    IF extension = ExtPdf THEN "pdf"
    ELSE IF extension = ExtDocx THEN "docx"
    ELSE "none"

\* Mutant: the signature is looked up in every type's list, not the expected one
validate_file_signature_AnyType(content, expected_type) ==
    /\ ExtKey(expected_type) \in DOMAIN allowed_signatures
    /\ \E k \in DOMAIN allowed_signatures :
          \E i \in 1..Len(allowed_signatures[k]) :
              StartsWith(content, allowed_signatures[k][i])

\* _validate_file_signature
validate_file_signature(content, expected_type) ==
    /\ ExtKey(expected_type) \in DOMAIN allowed_signatures
    /\ LET sigs == allowed_signatures[ExtKey(expected_type)]
       IN  \E i \in 1..Len(sigs) : StartsWith(content, sigs[i])

\* Mutant: the search is case-sensitive (content.lower() dropped)
check_suspicious_content_CaseSensitive(content) ==
    SelectSeq(suspicious_patterns, LAMBDA p : Contains(content, p))

\* _check_suspicious_content: the patterns found, in table order
check_suspicious_content(content) ==
    LET content_lower == ContentLower(content)
    IN  SelectSeq(suspicious_patterns,
                  LAMBDA p : Contains(content_lower, Lower(p)))

\* _validate_extension_match
validate_extension_match(content, extension) ==
    LET detected_type == detect_file_type(content)
    IN  \/ ExtKey(extension) = "pdf" /\ detected_type = "pdf"
        \/ ExtKey(extension) = "docx" /\ detected_type = "docx"

\* The bytes that belong to no UTF-8 text, written "xff" for 0xff
InvalidUtf8 == {"xff"}

\* content.decode('utf-8', errors='ignore'): the bytes that cannot be
\* decoded are dropped, the others (ASCII here) are kept
Utf8Ignore(content) ==
    [bytes |-> SelectSeq(content.bytes, LAMBDA b : b \notin InvalidUtf8),
     pad   |-> content.pad]

ExecutablePatterns ==
    <<PatScript, PatJavascript, PatVbscript>>
LinkPatterns ==
    <<<<"h", "t", "t", "p", ":", "/", "/">>,
      <<"h", "t", "t", "p", "s", ":", "/", "/">>,
      <<"f", "t", "p", ":", "/", "/">>>>
ObjectPatterns ==
    <<PatObject, PatEmbed, PatIframe>>
MacroPatterns ==
    <<<<"v", "b", "a">>, <<"m", "a", "c", "r", "o">>,
      <<"v", "b", "s", "c", "r", "i", "p", "t">>>>

\* any(pattern in content_str for pattern in patterns)
AnyIn(content_str, patterns) ==
    \E i \in 1..Len(patterns) : Contains(content_str, patterns[i])

\* _analyze_content_security
analyze_content_security(content) ==
    LET content_str == ContentLower(Utf8Ignore(content))
    IN  [executable_code  |-> AnyIn(content_str, ExecutablePatterns),
         external_links   |-> AnyIn(content_str, LinkPatterns),
         embedded_objects |-> AnyIn(content_str, ObjectPatterns),
         macro_content    |-> AnyIn(content_str, MacroPatterns)]

\* The sum _calculate_risk_score builds before it clamps it
RiskSum(content, file_type) ==
    LET content_analysis == analyze_content_security(content)
    IN  (IF file_type = "pdf" THEN 10 ELSE IF file_type = "docx" THEN 15 ELSE 0)
        + (IF content_analysis.executable_code THEN 40 ELSE 0)
        + (IF content_analysis.embedded_objects THEN 25 ELSE 0)
        + (IF content_analysis.macro_content THEN 30 ELSE 0)
        + (IF content_analysis.external_links THEN 15 ELSE 0)
        + (IF ContentLen(content) > 10 * MiB THEN 10 ELSE 0)

\* Mutant: the sum is returned as it is, not clamped
calculate_risk_score_NoClamp(content, file_type) == RiskSum(content, file_type)

\* _calculate_risk_score: min(risk_score, 100)
calculate_risk_score(content, file_type) ==
    IF RiskSum(content, file_type) < 100 THEN RiskSum(content, file_type) ELSE 100

\* The security_checks of an accepted upload (its file_integrity entry,
\* which nothing reads, is left out)
PassedChecks(content, file_extension) ==
    [kind             |-> "passed",
     content_analysis |-> analyze_content_security(content),
     risk_score       |-> calculate_risk_score(content, ExtKey(file_extension))]

ReasonTooLargePdf  == "File too large. Maximum size: 50.0MB"
ReasonTooLargeDocx == "File too large. Maximum size: 25.0MB"
ReasonSignature    == "Invalid file signature detected"
ReasonSuspicious   == "Suspicious content detected in file"
ReasonMismatch     == "File extension does not match file content"
ReasonPassed       == "File validation passed"

\* f"File too large. Maximum size: {max / (1024*1024):.1f}MB"
TooLargeReason(key) ==
    IF max_file_sizes[key] = 50 * MiB THEN ReasonTooLargePdf ELSE ReasonTooLargeDocx

\* Mutant: the report is built without sniffing the content
InitialReport_NoSniff(content, filename) ==
    [filename        |-> filename,
     file_size       |-> ContentLen(content),
     file_hash       |-> <<"sha256", content>>,
     file_type       |-> "unknown",
     security_checks |-> [kind |-> "empty"]]

\* The report validate_file builds before any check
InitialReport(content, filename) ==
    [filename        |-> filename,
     file_size       |-> ContentLen(content),
     file_hash       |-> <<"sha256", content>>,
     file_type       |-> detect_file_type(content),
     security_checks |-> [kind |-> "empty"]]

Verdict(accepted, reason, report) ==
    [called |-> TRUE, accepted |-> accepted, reason |-> reason, report |-> report]

\* Mutant: the verdict depends on the cache directory, not on the input
validate_file_ReadsCache(content, filename) ==
    IF DOMAIN files # {}
    THEN Verdict(TRUE, ReasonPassed,
                 [InitialReport(content, filename) EXCEPT
                     !.security_checks = [kind |-> "passed"]])
    ELSE Verdict(FALSE, ReasonSignature, InitialReport(content, filename))

\* Mutant: the signature is checked before the size
validate_file_SignatureFirst(content, filename) ==
    LET validation_result == InitialReport(content, filename)
        file_extension    == get_file_extension(filename)
        key               == ExtKey(file_extension)
        suspicious_found  == check_suspicious_content(content)
    IN  IF ~validate_file_signature(content, file_extension)
        THEN Verdict(FALSE, ReasonSignature, validation_result)
        ELSE IF key \in DOMAIN max_file_sizes /\ ContentLen(content) > max_file_sizes[key]
        THEN Verdict(FALSE, TooLargeReason(key), validation_result)
        ELSE IF suspicious_found # <<>>
        THEN Verdict(FALSE, ReasonSuspicious,
                     [validation_result EXCEPT !.security_checks =
                         [kind |-> "suspicious", suspicious_content |-> suspicious_found]])
        ELSE IF ~validate_extension_match(content, file_extension)
        THEN Verdict(FALSE, ReasonMismatch, validation_result)
        ELSE Verdict(TRUE, ReasonPassed,
                     [validation_result EXCEPT !.security_checks =
                         PassedChecks(content, file_extension)])

\* validate_file
validate_file(content, filename) ==
    LET validation_result == InitialReport(content, filename)
        file_extension    == get_file_extension(filename)
        key               == ExtKey(file_extension)
        suspicious_found  == check_suspicious_content(content)
    IN  IF key \in DOMAIN max_file_sizes /\ ContentLen(content) > max_file_sizes[key]
        THEN Verdict(FALSE, TooLargeReason(key), validation_result)
        ELSE IF ~validate_file_signature(content, file_extension)
        THEN Verdict(FALSE, ReasonSignature, validation_result)
        ELSE IF suspicious_found # <<>>
        THEN Verdict(FALSE, ReasonSuspicious,
                     [validation_result EXCEPT !.security_checks =
                         [kind |-> "suspicious", suspicious_content |-> suspicious_found]])
        ELSE IF ~validate_extension_match(content, file_extension)
        THEN Verdict(FALSE, ReasonMismatch, validation_result)
        ELSE Verdict(TRUE, ReasonPassed,
                     [validation_result EXCEPT !.security_checks =
                         PassedChecks(content, file_extension)])

---------------------------------------------------------------------------
(* Inputs of the validator harness *)

SampleHeads ==
    {<<>>, SigPdf, <<"%", "P", "D">>, <<"%", "p", "d", "f">>,
     SigZip34, SigZip56, SigZip78, <<"P", "K">>, <<" ">> \o SigPdf}

\* Markers broken by a byte that is no UTF-8: the byte search of the
\* suspicious-content scan does not see them, the decoded text holds them
BodyBrokenScript == <<"<", "s", "c", "r", "xff", "i", "p", "t">>
BodyBrokenObject == <<"<", "O", "b", "xff", "j", "e", "c", "t">>
BodyEverything ==
    BodyBrokenScript \o BodyBrokenObject
        \o <<"V", "B", "A", " ", "f", "t", "p", ":", "/", "/">>

SampleBodies ==
    {<<>>, <<"x">>, <<"t", "r", "a", "i", "l", "e", "r">>,
     PatScript, <<"<", "S", "C", "R", "I", "P", "T">>,
     <<"x", "<", "S", "c", "r", "i", "p", "t", ">">>,
     <<"<", "s", "c", "r", "i", "p">>,
     PatJavascript, PatVbscript, PatIframe, PatObject, PatEmbed,
     <<"h", "t", "t", "p", ":", "/", "/">>, <<"m", "a", "c", "r", "o">>,
     BodyBrokenScript, BodyBrokenObject, BodyEverything}

\* 0 stands for "no padding": the buffer is just its bytes
SampleSizes ==
    {0, 10 * MiB, 10 * MiB + 1, 25 * MiB, 25 * MiB + 1, 50 * MiB, 50 * MiB + 1}

MkContent(bytes, size) ==
    [bytes |-> bytes, pad |-> IF size > Len(bytes) THEN size - Len(bytes) ELSE 0]

SampleContents ==
    {MkContent(h \o b, s) : h \in SampleHeads, b \in SampleBodies, s \in SampleSizes}

NamePdf      == <<"a", ".", "p", "d", "f">>
NamePdfUpper == <<"a", ".", "P", "D", "F">>
NameDocx     == <<"a", ".", "d", "o", "c", "x">>
NameDocxMix  == <<"d", "/", "a", ".", "D", "o", "c", "X">>
NameTxt      == <<"a", ".", "t", "x", "t">>
NameUploaded == <<"u", "p", "l", "o", "a", "d", "e", "d">>
NameHidden   == <<".", "p", "d", "f">>
NameDouble   == <<"a", ".", "p", "d", "f", ".", "d", "o", "c", "x">>

SampleFilenames ==
    {NamePdf, NamePdfUpper, NameDocx, NameDocxMix, NameTxt, NameUploaded,
     <<>>, NameHidden, NameDouble}

---------------------------------------------------------------------------
(* DocumentCache (services/cache.py).  The cache directory is a function  *)
(* from the paths of the files in it to [mtime, text]; the text of a file *)
(* is what json.dump wrote: a complete document, or a truncated one when  *)
(* the write failed half way.                                             *)

MaxTicks == 2

\* DocumentCache(): max_age_hours = 24
max_age_seconds == 24 * 3600

\* hashlib.md5(x).hexdigest(): a digest, taken to be free of collisions
Md5(x) == <<"md5", x>>

\* Mutant: the key is the digest of the content alone
get_cache_key_ContentOnly(content, filename) == <<Md5(content), "_", Md5(<<>>)>>

\* _get_cache_key: f"{content_hash}_{filename_hash}"
get_cache_key(content, filename) == <<Md5(content), "_", Md5(filename)>>

\* _get_cache_path: cache_dir / f"{cache_key}.json"
get_cache_path(cache_key) == <<cache_key, ".json">>

\* cache_dir.glob("*.json")
Glob(fs) == {path \in DOMAIN fs : path[2] = ".json"}

EmptyDir == [path \in {} |-> 0]

\* path.unlink(), for each path of a set
Unlink(fs, paths) == [path \in DOMAIN fs \ paths |-> fs[path]]

\* open(path, 'w') and a write: the file is created or replaced
WriteFile(fs, path, file) ==
    [q \in DOMAIN fs \cup {path} |-> IF q = path THEN file ELSE fs[q]]

\* json.dump(cache_data, f, indent=2) run to its end
JsonDump(doc) == [complete |-> TRUE, doc |-> doc]

\* what is left of the text when json.dump raised after open() truncated the file
Truncated == [complete |-> FALSE]

\* json.load(f): raises on a truncated text
JsonLoadRaises(text) == ~text.complete
JsonLoad(text) == text.doc

Miss == [hit |-> FALSE]
Hit(cached_data) == [hit |-> TRUE, entry |-> cached_data]

\* What a filesystem call of get may raise: nothing, stat(), unlink(), or
\* open()/json.load
GetFaults == {"none", "stat", "unlink", "read"}

\* The body of get's try block: raised tells whether an exception left it
get_body(fs, t, content, filename, fault) ==
    LET cache_path == get_cache_path(get_cache_key(content, filename))
    IN  IF cache_path \notin DOMAIN fs
        THEN [raised |-> FALSE, result |-> Miss, files |-> fs]
        ELSE IF fault = "stat"
        THEN [raised |-> TRUE, result |-> Miss, files |-> fs]
        ELSE IF t - fs[cache_path].mtime > max_age_seconds
        THEN IF fault = "unlink"
             THEN [raised |-> TRUE, result |-> Miss, files |-> fs]
             ELSE [raised |-> FALSE, result |-> Miss,
                   files |-> Unlink(fs, {cache_path})]
        ELSE IF fault = "read" \/ JsonLoadRaises(fs[cache_path].text)
        THEN [raised |-> TRUE, result |-> Miss, files |-> fs]
        ELSE [raised |-> FALSE, result |-> Hit(JsonLoad(fs[cache_path].text)),
              files |-> fs]

\* Mutant: get without its except clause
cache_get_Propagates(fs, t, content, filename, fault) ==
    get_body(fs, t, content, filename, fault)

\* Mutant: an entry is expired as soon as its age reaches max age
cache_get_ExpiresAtMaxAge(fs, t, content, filename, fault) ==
    LET cache_path == get_cache_path(get_cache_key(content, filename))
    IN  IF cache_path \in DOMAIN fs /\ t - fs[cache_path].mtime = max_age_seconds
        THEN [raised |-> FALSE, result |-> Miss, files |-> Unlink(fs, {cache_path})]
        ELSE get_body(fs, t, content, filename, fault)

\* Mutant: an expired entry is reported absent but left in the directory
cache_get_NoUnlink(fs, t, content, filename, fault) ==
    LET b == get_body(fs, t, content, filename, fault)
    IN  [raised |-> FALSE, result |-> b.result, files |-> fs]

\* DocumentCache.get: except Exception: return None
cache_get(fs, t, content, filename, fault) ==
    LET b == get_body(fs, t, content, filename, fault)
    IN  IF b.raised
        THEN [raised |-> FALSE, result |-> Miss, files |-> b.files]
        ELSE b

\* What a filesystem call of set may raise: nothing, open(), or json.dump
\* after open() truncated the file
SetFaults == {"none", "open", "dump"}

\* The body of set's try block
set_body(fs, t, content, filename, data, fault) ==
    LET cache_path == get_cache_path(get_cache_key(content, filename))
        cache_data == [timestamp |-> t, filename |-> filename, data |-> data]
    IN  IF fault = "open"
        THEN [raised |-> TRUE, files |-> fs]
        ELSE IF fault = "dump"
        THEN [raised |-> TRUE,
              files |-> WriteFile(fs, cache_path, [mtime |-> t, text |-> Truncated])]
        ELSE [raised |-> FALSE,
              files |-> WriteFile(fs, cache_path,
                                  [mtime |-> t, text |-> JsonDump(cache_data)])]

\* Mutant: an existing file is not overwritten (opened with 'x', not 'w')
cache_set_KeepsExisting(fs, t, content, filename, data, fault) ==
    LET cache_path == get_cache_path(get_cache_key(content, filename))
    IN  IF cache_path \in DOMAIN fs
        THEN [raised |-> FALSE, files |-> fs]
        ELSE [raised |-> FALSE,
              files |-> set_body(fs, t, content, filename, data, fault).files]

\* DocumentCache.set: except Exception: pass
cache_set(fs, t, content, filename, data, fault) ==
    LET b == set_body(fs, t, content, filename, data, fault)
    IN  [raised |-> FALSE, files |-> b.files]

\* Mutant: the sweep also removes an entry whose age equals max age
clear_expired_AtMaxAge(fs, t) ==
    LET expired == {path \in Glob(fs) : t - fs[path].mtime >= max_age_seconds}
    IN  [count |-> Cardinality(expired), files |-> Unlink(fs, expired)]

\* DocumentCache.clear_expired, with no filesystem call raising
clear_expired(fs, t) ==
    LET expired == {path \in Glob(fs) : t - fs[path].mtime > max_age_seconds}
    IN  [count |-> Cardinality(expired), files |-> Unlink(fs, expired)]

\* Mutant: clear_all stops after the first file it removes
clear_all_StopsAfterFirst(fs) ==
    IF Glob(fs) = {} THEN [count |-> 0, files |-> fs]
    ELSE LET first == CHOOSE path \in Glob(fs) : TRUE
         IN  [count |-> 1, files |-> Unlink(fs, {first})]

\* DocumentCache.clear_all, with no filesystem call raising
clear_all(fs) ==
    [count |-> Cardinality(Glob(fs)), files |-> Unlink(fs, Glob(fs))]

CacheInit ==
    /\ files = EmptyDir
    /\ now = 0
    /\ last = [op |-> "none"]
    /\ enabled = FALSE

---------------------------------------------------------------------------
(* The /analyze response built from a cache hit (main.py)                 *)

\* AnalyzeResponse(...) of the cache-hit branch
AnalyzeHitResponse(filename, cached_result, security_info) ==
    [status          |-> 200,
     file_name       |-> filename,
     num_issues      |-> cached_result.data.num_issues,
     issues          |-> cached_result.data.issues,
     cache_hit       |-> TRUE,
     security_info   |-> security_info,
     context_clarity |-> cached_result.data.context_clarity,
     writing_style   |-> cached_result.data.writing_style]

---------------------------------------------------------------------------
(* Cache harness: any sequence of get, set, clear_expired, clear_all and  *)
(* of time passing, on sampled (content, filename) pairs and payloads.    *)

BufPdf  == [bytes |-> SigPdf \o <<"t", "r", "a", "i", "l", "e", "r">>, pad |-> 0]
BufDocx == [bytes |-> SigZip34 \o <<"x">>, pad |-> 0]

CachePairs == {<<BufPdf, NamePdf>>, <<BufPdf, NamePdfUpper>>, <<BufDocx, NamePdf>>}

IssueA ==
    [message |-> "agreement", rule |-> "grammar", offset |-> 5, length |-> 3,
     replacements |-> <<"is">>, context |-> "This are a test."]

ClarityDisabled ==
    [context_clarity_enabled |-> FALSE,
     message |-> "Context clarity analysis not available - OpenAI API key not configured"]

StyleDisabled ==
    [enabled |-> FALSE, message |-> "Writing style analysis not available"]

PayloadA ==
    [num_issues |-> 1, issues |-> <<IssueA>>,
     context_clarity |-> ClarityDisabled, writing_style |-> StyleDisabled]

PayloadB ==
    [num_issues |-> 0, issues |-> <<>>,
     context_clarity |-> ClarityDisabled, writing_style |-> StyleDisabled]

Payloads == {PayloadA, PayloadB}

NoPath == <<>>

\* What the operation before a sweep was, when it was a lookup of an entry
\* aged past max age: the path looked up and whether it was reported absent
ExpiredLookup(l) ==
    IF l.op = "get" /\ l.expired
    THEN [path |-> l.path, absent |-> ~l.result.hit]
    ELSE [path |-> NoPath, absent |-> FALSE]

Expired(fs, t, path) == path \in DOMAIN fs /\ t - fs[path].mtime > max_age_seconds

Get(content, filename, fault) ==
    LET r    == cache_get(files, now, content, filename, fault)
        path == get_cache_path(get_cache_key(content, filename))
    IN  /\ files' = r.files
        /\ last' = [op |-> "get", content |-> content, filename |-> filename,
                    path |-> path, fault |-> fault, raised |-> r.raised,
                    result |-> r.result, pre |-> files,
                    expired |-> Expired(files, now, path)]
        /\ UNCHANGED <<now, enabled, v_vars, h_vars>>

Set(content, filename, data, fault) ==
    LET r    == cache_set(files, now, content, filename, data, fault)
        path == get_cache_path(get_cache_key(content, filename))
    IN  /\ files' = r.files
        /\ last' = [op |-> "set", content |-> content, filename |-> filename,
                    path |-> path, data |-> data, fault |-> fault,
                    raised |-> r.raised, pre |-> files]
        /\ UNCHANGED <<now, enabled, v_vars, h_vars>>

ClearExpired ==
    LET r == clear_expired(files, now)
    IN  /\ files' = r.files
        /\ last' = [op |-> "clear_expired", count |-> r.count, pre |-> files,
                    after_expired_lookup |-> ExpiredLookup(last)]
        /\ UNCHANGED <<now, enabled, v_vars, h_vars>>

ClearAll ==
    LET r == clear_all(files)
    IN  /\ files' = r.files
        /\ last' = [op |-> "clear_all", count |-> r.count, pre |-> files]
        /\ UNCHANGED <<now, enabled, v_vars, h_vars>>

\* Time passes: by a second, or by the whole max-age window
TickSteps == {1, max_age_seconds}

Tick(dt) ==
    /\ (now % max_age_seconds) + (now \div max_age_seconds) < MaxTicks
    /\ now' = now + dt
    /\ last' = [op |-> "tick"]
    /\ UNCHANGED <<files, enabled, v_vars, h_vars>>

InitCache ==
    /\ v_content = BufPdf
    /\ v_filename = NamePdf
    /\ v_result = NotCalled
    /\ CacheInit
    /\ HarnessIdle

NextCache ==
    \/ \E pair \in CachePairs : Get(pair[1], pair[2], "none")
    \/ \E pair \in CachePairs, data \in Payloads : Set(pair[1], pair[2], data, "none")
    \/ ClearExpired
    \/ ClearAll
    \/ \E dt \in TickSteps : Tick(dt)

\* The cache on a filesystem whose calls do not fail
SpecCache == InitCache /\ [][NextCache]_vars

FaultyPairs == {<<BufPdf, NamePdf>>, <<BufDocx, NamePdf>>}

NextCacheFaulty ==
    \/ \E pair \in FaultyPairs, fault \in GetFaults : Get(pair[1], pair[2], fault)
    \/ \E pair \in FaultyPairs, data \in Payloads, fault \in SetFaults :
          Set(pair[1], pair[2], data, fault)
    \/ ClearExpired
    \/ ClearAll
    \/ \E dt \in TickSteps : Tick(dt)

\* The cache on a filesystem whose calls may raise inside get and set
SpecCacheFaulty == InitCache /\ [][NextCacheFaulty]_vars

---------------------------------------------------------------------------
(* Properties of the cache *)

PathOf(pair) == get_cache_path(get_cache_key(pair[1], pair[2]))

Age(fs, path) == now - fs[path].mtime

\* C5: a lookup made right after store(content, name, payload), with no
\* expiry, clear or overwrite in between, finds an entry whose data is the
\* payload stored, and the /analyze response built from that hit carries the
\* num_issues, issues, context_clarity and writing_style that were stored.
C5_RoundTrip ==
    last.op = "set" =>
        LET r == cache_get(files, now, last.content, last.filename, "none")
        IN  /\ r.result.hit
            /\ r.result.entry.data = last.data
            /\ r.files = files
            /\ LET resp == AnalyzeHitResponse(last.filename, r.result.entry,
                                              [kind |-> "passed"])
               IN  /\ resp.status = 200
                   /\ resp.num_issues = last.data.num_issues
                   /\ resp.issues = last.data.issues
                   /\ resp.context_clarity = last.data.context_clarity
                   /\ resp.writing_style = last.data.writing_style

\* C5 witness: a store that overwrites an entry holding another payload,
\* written at an earlier time
C5_Witness ==
    /\ last.op = "set"
    /\ last.path \in DOMAIN last.pre
    /\ last.pre[last.path].text.doc.data # last.data
    /\ last.pre[last.path].mtime < now

\* C6: a lookup never returns an entry older than max age: such an entry is
\* reported absent and that lookup removes it (and nothing else) from the
\* directory; an entry whose age is at most max age is returned as stored and
\* the directory is left as it was.
C6_LazyExpiry ==
    last.op = "get" =>
        LET path == last.path
            pre  == last.pre
        IN  /\ last.result.hit =>
                  (path \in DOMAIN pre /\ Age(pre, path) <= 24 * 3600)
            /\ (path \in DOMAIN pre /\ Age(pre, path) > 24 * 3600) =>
                  /\ ~last.result.hit
                  /\ path \notin DOMAIN files
                  /\ files = [q \in DOMAIN pre \ {path} |-> pre[q]]
            /\ (path \in DOMAIN pre /\ Age(pre, path) <= 24 * 3600) =>
                  /\ last.result.hit
                  /\ last.result.entry = pre[path].text.doc
                  /\ files = pre

\* C6 witness: a lookup of an entry one second past max age, with another
\* entry in the directory
C6_Witness ==
    /\ last.op = "get"
    /\ last.path \in DOMAIN last.pre
    /\ Age(last.pre, last.path) = 24 * 3600 + 1
    /\ ~last.result.hit
    /\ DOMAIN files # {}

\* C7 as stated: after a lookup of an entry aged past max age returned
\* absent, the sweep that follows removes that entry and counts it.
C7_Original ==
    (last.op = "clear_expired" /\ last.after_expired_lookup.path # NoPath) =>
        /\ last.after_expired_lookup.absent
        /\ last.after_expired_lookup.path \in DOMAIN last.pre \ DOMAIN files
        /\ last.count >= 1

\* C7 amended: a lookup of an entry aged past max age returns absent and
\* removes the entry itself, so the sweep that directly follows does not
\* find it: the count the sweep returns is the number of the other expired
\* entries, and does not include the entry looked up.
C7_Amended ==
    (last.op = "clear_expired" /\ last.after_expired_lookup.path # NoPath) =>
        /\ last.after_expired_lookup.absent
        /\ last.after_expired_lookup.path \notin DOMAIN last.pre
        /\ last.after_expired_lookup.path \notin DOMAIN files
        /\ last.count =
              Cardinality({q \in DOMAIN last.pre : Age(last.pre, q) > 24 * 3600})

\* C7 witness: a sweep right after the lookup of an expired entry, which
\* reports nothing removed
C7_Witness ==
    /\ last.op = "clear_expired"
    /\ last.after_expired_lookup.path # NoPath
    /\ last.after_expired_lookup.absent
    /\ last.count = 0

\* Whether a filesystem call or json.load failed inside the last lookup
GetFailed ==
    /\ last.path \in DOMAIN last.pre
    /\ \/ last.fault = "stat"
       \/ last.expired /\ last.fault = "unlink"
       \/ ~last.expired /\ last.fault = "read"
       \/ ~last.expired /\ ~last.pre[last.path].text.complete

\* C8: no exception leaves get or set.  A lookup of a pair that has no entry
\* returns absent and changes nothing; a lookup in which stat, unlink, open
\* or json.load failed returns absent; a store in which open or json.dump
\* failed returns normally.
C8_FaultsSwallowed ==
    /\ last.op = "get" =>
          /\ ~last.raised
          /\ last.path \notin DOMAIN last.pre => (~last.result.hit /\ files = last.pre)
          /\ GetFailed => ~last.result.hit
    /\ last.op = "set" => ~last.raised

\* C8 witness: a lookup of a fresh entry whose text a failed store left
\* truncated
C8_Witness ==
    /\ last.op = "get"
    /\ last.fault = "none"
    /\ last.path \in DOMAIN last.pre
    /\ ~last.expired
    /\ ~last.pre[last.path].text.complete
    /\ ~last.result.hit

\* C9: clear_all removes every entry, whatever its age: it returns the number
\* of entries that were in the directory and afterwards a lookup of every
\* pair that had an entry returns absent.
C9_ClearAll ==
    last.op = "clear_all" =>
        /\ last.count = Cardinality(DOMAIN last.pre)
        /\ DOMAIN files = {}
        /\ \A pair \in CachePairs :
              PathOf(pair) \in DOMAIN last.pre =>
                  ~cache_get(files, now, pair[1], pair[2], "none").result.hit

\* C9 witness: clear_all on a directory holding an expired entry and an
\* entry within max age
C9_Witness ==
    /\ last.op = "clear_all"
    /\ last.count >= 2
    /\ \E q \in DOMAIN last.pre : Age(last.pre, q) > 24 * 3600
    /\ \E q \in DOMAIN last.pre : Age(last.pre, q) <= 24 * 3600

\* C10: clear_expired removes exactly the entries older than max age and
\* returns how many it removed; every entry within max age is left as it was
\* and a lookup still returns it.
C10_ClearExpired ==
    last.op = "clear_expired" =>
        LET pre     == last.pre
            expired == {q \in DOMAIN pre : Age(pre, q) > 24 * 3600}
        IN  /\ DOMAIN files = DOMAIN pre \ expired
            /\ last.count = Cardinality(expired)
            /\ \A q \in DOMAIN files : files[q] = pre[q]
            /\ \A pair \in CachePairs :
                  PathOf(pair) \in DOMAIN pre \ expired =>
                      LET r == cache_get(files, now, pair[1], pair[2], "none")
                      IN  /\ r.result.hit
                          /\ r.result.entry = pre[PathOf(pair)].text.doc

\* C10 witness: a sweep that removes an entry and keeps one whose age is
\* exactly max age
C10_Witness ==
    /\ last.op = "clear_expired"
    /\ last.count >= 1
    /\ \E q \in DOMAIN files : Age(files, q) = 24 * 3600

\* C11: distinct (content, filename) pairs have distinct keys, so a store for
\* one pair leaves the entry of every other pair as it was (same text, same
\* mtime), a pair that had no entry still has none, and a lookup of another
\* pair (same content under another name, or same name with other content)
\* returns after the store what it returned before it: a miss when that pair
\* was never stored.
C11_KeyedByContentAndName ==
    /\ \A p, q \in CachePairs : p # q => PathOf(p) # PathOf(q)
    /\ last.op = "set" =>
          \A q \in CachePairs \ {<<last.content, last.filename>>} :
              LET before == cache_get(last.pre, now, q[1], q[2], "none")
                  after  == cache_get(files, now, q[1], q[2], "none")
              IN  /\ after.result = before.result
                  /\ PathOf(q) \in DOMAIN last.pre =>
                        /\ PathOf(q) \in DOMAIN files
                        /\ files[PathOf(q)] = last.pre[PathOf(q)]
                  /\ PathOf(q) \notin DOMAIN last.pre =>
                        /\ PathOf(q) \notin DOMAIN files
                        /\ ~after.result.hit

\* C11 witness: a store for (pdf buffer, "a.pdf") made while the same buffer
\* under "A.PDF" has no entry and another buffer under "a.pdf" holds an older
\* entry with another payload
C11_Witness ==
    /\ last.op = "set"
    /\ last.content = BufPdf /\ last.filename = NamePdf
    /\ PathOf(<<BufPdf, NamePdfUpper>>) \notin DOMAIN files
    /\ PathOf(<<BufDocx, NamePdf>>) \in DOMAIN files
    /\ files[PathOf(<<BufDocx, NamePdf>>)].mtime < now
    /\ files[PathOf(<<BufDocx, NamePdf>>)].text.doc.data # last.data

---------------------------------------------------------------------------
(* Two calls of set for one (content, filename) that run at the same time *)
(* in two workers of the service.  The text json.dump produces is a       *)
(* sequence of units.  open(path, 'w') creates the file or truncates it;  *)
(* json.dump fills the writer's buffer, and each time the buffer is full  *)
(* its BufferUnits units are written to the file at the position this     *)
(* writer has reached; leaving the with block writes what is left in the  *)
(* buffer and closes the file.  Nothing in set locks the file or renames  *)
(* a finished temporary file over it.                                     *)

BufferUnits == 2

StoreWriters == {"w1", "w2"}

\* The text of json.dump(cache_data): the longer, the more issues it holds
JsonUnits(cache_data) ==
    [k \in 1..(2 + Len(cache_data.data.issues)) |-> [doc |-> cache_data, k |-> k]]

NoDoc == [timestamp |-> 0, filename |-> <<>>, data |-> PayloadB]

\* A unit of a file that no write has filled: it lies between the end of
\* the file and the position of a later write
Hole == [doc |-> NoDoc, k |-> 0]

\* write(block) at position pos of the file, counted from 0
WriteAt(bytes, pos, block) ==
    LET end == pos + Len(block)
        n   == IF end > Len(bytes) THEN end ELSE Len(bytes)
    IN  [k \in 1..n |->
            IF k > pos /\ k <= end THEN block[k - pos]
            ELSE IF k <= Len(bytes) THEN bytes[k]
            ELSE Hole]

\* What json.load makes of the file: the document whose text it holds, or
\* an error when it holds anything else
TextOf(bytes) ==
    IF Len(bytes) > 0 /\ bytes = JsonUnits(bytes[1].doc)
    THEN JsonDump(bytes[1].doc)
    ELSE Truncated

StorePath == get_cache_path(get_cache_key(BufPdf, NamePdf))

IdleWriter == [pc |-> "idle", doc |-> NoDoc, pos |-> 0]

InitStores ==
    /\ s_bytes = <<>>
    /\ s_writers = [w \in StoreWriters |-> IdleWriter]
    /\ s_order = <<>>
    /\ PatchIdle
    /\ EnhanceIdle
    /\ v_again = NotCalled
    /\ OthersIdle
    /\ v_content = BufPdf
    /\ v_filename = NamePdf
    /\ v_result = NotCalled
    /\ CacheInit

\* with open(cache_path, 'w', encoding='utf-8') as f:
StoreOpen(w, data) ==
    /\ s_writers[w].pc = "idle"
    /\ s_bytes' = <<>>
    /\ s_writers' = [s_writers EXCEPT ![w] =
           [pc |-> "open", pos |-> 0,
            doc |-> [timestamp |-> now, filename |-> NamePdf, data |-> data]]]
    /\ files' = WriteFile(files, StorePath, [mtime |-> now, text |-> TextOf(<<>>)])
    /\ last' = [op |-> "open", writer |-> w]
    /\ UNCHANGED <<s_order, now, enabled, v_vars, p_vars, e_vars, v_again, x_vars>>

\* json.dump(cache_data, f, indent=2): a full buffer goes to the file
StoreWrite(w) ==
    LET units == JsonUnits(s_writers[w].doc)
        pos   == s_writers[w].pos
    IN  /\ s_writers[w].pc = "open"
        /\ Len(units) - pos > BufferUnits
        /\ s_bytes' = WriteAt(s_bytes, pos, SubSeq(units, pos + 1, pos + BufferUnits))
        /\ s_writers' = [s_writers EXCEPT ![w].pos = pos + BufferUnits]
        /\ files' = WriteFile(files, StorePath,
                              [mtime |-> now, text |-> TextOf(s_bytes')])
        /\ last' = [op |-> "write", writer |-> w]
        /\ UNCHANGED <<s_order, now, enabled, v_vars, p_vars, e_vars, v_again, x_vars>>

\* the end of the with block: the rest of the buffer is written, the file
\* is closed and set returns
StoreClose(w) ==
    LET units == JsonUnits(s_writers[w].doc)
        pos   == s_writers[w].pos
    IN  /\ s_writers[w].pc = "open"
        /\ Len(units) - pos <= BufferUnits
        /\ s_bytes' = WriteAt(s_bytes, pos, SubSeq(units, pos + 1, Len(units)))
        /\ s_writers' = [s_writers EXCEPT ![w].pc = "done", ![w].pos = Len(units)]
        /\ s_order' = Append(s_order, w)
        /\ files' = WriteFile(files, StorePath,
                              [mtime |-> now, text |-> TextOf(s_bytes')])
        /\ last' = [op |-> "close", writer |-> w]
        /\ UNCHANGED <<now, enabled, v_vars, p_vars, e_vars, v_again, x_vars>>

\* A lookup of the pair, at any moment
StoreLookup ==
    LET r == cache_get(files, now, BufPdf, NamePdf, "none")
    IN  /\ files' = r.files
        /\ last' = [op |-> "get", content |-> BufPdf, filename |-> NamePdf,
                    path |-> StorePath, fault |-> "none", raised |-> r.raised,
                    result |-> r.result, pre |-> files, expired |-> FALSE]
        /\ UNCHANGED <<now, enabled, v_vars, p_vars, e_vars, s_vars, v_again, x_vars>>

NextStores ==
    \/ \E w \in StoreWriters, data \in Payloads : StoreOpen(w, data)
    \/ \E w \in StoreWriters : StoreWrite(w)
    \/ \E w \in StoreWriters : StoreClose(w)
    \/ StoreLookup

SpecStores == InitStores /\ [][NextStores]_vars

\* C18: once two concurrent stores to the same (content, filename) have
\* both completed, the file holds the complete text of the store that
\* closed last, and a lookup returns that store's payload.
C18_LastWriteWins ==
    (\A w \in StoreWriters : s_writers[w].pc = "done") =>
        LET winner == s_writers[s_order[Len(s_order)]].doc
            r      == cache_get(files, now, BufPdf, NamePdf, "none")
        IN  /\ s_bytes = JsonUnits(winner)
            /\ r.result.hit
            /\ r.result.entry.data = winner.data

---------------------------------------------------------------------------
(* A call of clear_all or clear_expired that runs at the same time as a   *)
(* call of get and a call of set (the sweep of POST /cache/clear runs in  *)
(* a worker thread, the requests on the event loop, other workers of the  *)
(* service share the directory).  Every call is cut at its filesystem     *)
(* calls: glob, stat, unlink, exists, open, read, write.                  *)

RacePairs == FaultyPairs

RacePaths == {get_cache_path(get_cache_key(pair[1], pair[2])) : pair \in RacePairs}

\* An entry stored at time t with payload PayloadA
StoredAt(pair, t) ==
    [mtime |-> t,
     text  |-> JsonDump([timestamp |-> t, filename |-> pair[2], data |-> PayloadA])]

\* The directories the race starts from: each pair was never stored, was
\* stored at time 0 or was stored one second later
RaceDirs ==
    LET marks == [RacePairs -> {"none", "old", "fresh"}]
        dir(m) == [path \in {get_cache_path(get_cache_key(pair[1], pair[2])) :
                                pair \in {q \in RacePairs : m[q] # "none"}} |->
                     LET pair == CHOOSE q \in RacePairs :
                                    get_cache_path(get_cache_key(q[1], q[2])) = path
                     IN  StoredAt(pair, IF m[pair] = "old" THEN 0 ELSE 1)]
    IN  {dir(m) : m \in marks}

\* The orders in which glob may yield a set of paths
ListingsOf(paths) ==
    {listing \in [1..Cardinality(paths) -> paths] :
        \A i, j \in 1..Cardinality(paths) : i # j => listing[i] # listing[j]}

IdleCall == [pc |-> "idle"]

InitRace ==
    /\ files \in RaceDirs
    /\ now = max_age_seconds + 1
    /\ last = [op |-> "none"]
    /\ enabled = FALSE
    /\ r_sweep = IdleCall
    /\ r_lookup = IdleCall
    /\ r_store = IdleCall
    /\ PatchIdle
    /\ EnhanceIdle
    /\ StoresIdle
    /\ ModifyIdle
    /\ NothingStored
    /\ v_again = NotCalled
    /\ v_content = BufPdf
    /\ v_filename = NamePdf
    /\ v_result = NotCalled

RaceStep == [op |-> "step"]

\* clear_all / clear_expired up to the listing of the directory:
\* removed_count = 0, current_time = time.time(), glob("*.json")
SweepStart(kind, listing) ==
    /\ r_sweep.pc = "idle"
    /\ r_sweep' = [pc |-> "loop", kind |-> kind, listing |-> listing,
                   current_time |-> now, removed_count |-> 0,
                   start |-> files, restored |-> {}]
    /\ last' = RaceStep
    /\ UNCHANGED <<files, r_lookup, r_store>>

\* The except clause of the sweep: the loop is left and the count returned
SweepAbandon == [r_sweep EXCEPT !.pc = "return"]

\* clear_expired: cache_file.stat().st_mtime and the comparison
SweepStat ==
    /\ r_sweep.pc = "loop"
    /\ r_sweep.kind = "clear_expired"
    /\ r_sweep.listing # <<>>
    /\ LET cache_file == Head(r_sweep.listing)
       IN  r_sweep' =
             IF cache_file \notin DOMAIN files
             THEN SweepAbandon
             ELSE IF r_sweep.current_time - files[cache_file].mtime > max_age_seconds
             THEN [r_sweep EXCEPT !.pc = "unlink"]
             ELSE [r_sweep EXCEPT !.listing = Tail(@)]
    /\ last' = RaceStep
    /\ UNCHANGED <<files, r_lookup, r_store>>

\* cache_file.unlink(); removed_count += 1
SweepUnlink ==
    /\ \/ r_sweep.pc = "unlink"
       \/ r_sweep.pc = "loop" /\ r_sweep.kind = "clear_all" /\ r_sweep.listing # <<>>
    /\ LET cache_file == Head(r_sweep.listing)
       IN  IF cache_file \notin DOMAIN files
           THEN /\ r_sweep' = SweepAbandon
                /\ UNCHANGED files
           ELSE /\ r_sweep' = [r_sweep EXCEPT !.pc = "loop", !.listing = Tail(@),
                                               !.removed_count = @ + 1]
                /\ files' = Unlink(files, {cache_file})
    /\ last' = RaceStep
    /\ UNCHANGED <<r_lookup, r_store>>

\* return removed_count
SweepReturn ==
    /\ \/ r_sweep.pc = "return"
       \/ r_sweep.pc = "loop" /\ r_sweep.listing = <<>>
    /\ r_sweep' = IdleCall
    /\ last' = [op |-> "sweep", kind |-> r_sweep.kind, raised |-> FALSE,
                count |-> r_sweep.removed_count, start |-> r_sweep.start,
                current_time |-> r_sweep.current_time,
                restored |-> r_sweep.restored,
                completed |-> r_sweep.pc = "loop"]
    /\ UNCHANGED <<files, r_lookup, r_store>>

LookupReturn(result) ==
    /\ r_lookup' = IdleCall
    /\ last' = [op |-> "lookup", path |-> r_lookup.path, raised |-> FALSE,
                result |-> result]

\* get: if not cache_path.exists(): return None
LookupExists(pair) ==
    LET cache_path == get_cache_path(get_cache_key(pair[1], pair[2]))
    IN  /\ r_lookup.pc = "idle"
        /\ IF cache_path \notin DOMAIN files
           THEN /\ r_lookup' = IdleCall
                /\ last' = [op |-> "lookup", path |-> cache_path, raised |-> FALSE,
                            result |-> Miss]
           ELSE /\ r_lookup' = [pc |-> "stat", path |-> cache_path]
                /\ last' = RaceStep
        /\ UNCHANGED <<files, r_sweep, r_store>>

\* get: time.time() - cache_path.stat().st_mtime > self.max_age_seconds
LookupStat ==
    /\ r_lookup.pc = "stat"
    /\ IF r_lookup.path \notin DOMAIN files
       THEN LookupReturn(Miss)
       ELSE /\ r_lookup' =
                 [r_lookup EXCEPT !.pc =
                     IF now - files[r_lookup.path].mtime > max_age_seconds
                     THEN "unlink" ELSE "open"]
            /\ last' = RaceStep
    /\ UNCHANGED <<files, r_sweep, r_store>>

\* get: cache_path.unlink(); return None
LookupUnlink ==
    /\ r_lookup.pc = "unlink"
    /\ files' = Unlink(files, {r_lookup.path})
    /\ LookupReturn(Miss)
    /\ UNCHANGED <<r_sweep, r_store>>

\* get: open(cache_path, 'r') and json.load(f)
LookupRead ==
    /\ r_lookup.pc = "open"
    /\ IF r_lookup.path \notin DOMAIN files
       THEN LookupReturn(Miss)
       ELSE IF JsonLoadRaises(files[r_lookup.path].text)
       THEN LookupReturn(Miss)
       ELSE LookupReturn(Hit(JsonLoad(files[r_lookup.path].text)))
    /\ UNCHANGED <<files, r_sweep, r_store>>

\* The sweep under way learns that a path was stored again
Restored(path) ==
    IF r_sweep.pc = "idle" THEN r_sweep
    ELSE [r_sweep EXCEPT !.restored = @ \cup {path}]

\* set: open(cache_path, 'w') creates or truncates the file
RaceStoreOpen(pair, data) ==
    LET cache_path == get_cache_path(get_cache_key(pair[1], pair[2]))
    IN  /\ r_store.pc = "idle"
        /\ r_store' = [pc |-> "dump", path |-> cache_path,
                       doc |-> [timestamp |-> now, filename |-> pair[2],
                                data |-> data]]
        /\ files' = WriteFile(files, cache_path, [mtime |-> now, text |-> Truncated])
        /\ r_sweep' = Restored(cache_path)
        /\ last' = RaceStep
        /\ UNCHANGED r_lookup

\* set: json.dump(cache_data, f, indent=2) and the end of the with block
RaceStoreDump ==
    /\ r_store.pc = "dump"
    /\ files' = WriteFile(files, r_store.path,
                          [mtime |-> now, text |-> JsonDump(r_store.doc)])
    /\ r_sweep' = Restored(r_store.path)
    /\ r_store' = IdleCall
    /\ last' = [op |-> "store", path |-> r_store.path, raised |-> FALSE]
    /\ UNCHANGED r_lookup

RaceUnchanged ==
    UNCHANGED <<now, enabled, v_vars, p_vars, e_vars, s_vars, v_again, m_vars,
                a_stored>>

NextRace ==
    \/ \E kind \in {"clear_all", "clear_expired"} :
         \E listing \in ListingsOf(Glob(files)) :
            SweepStart(kind, listing) /\ RaceUnchanged
    \/ SweepStat /\ RaceUnchanged
    \/ SweepUnlink /\ RaceUnchanged
    \/ SweepReturn /\ RaceUnchanged
    \/ \E pair \in RacePairs : LookupExists(pair) /\ RaceUnchanged
    \/ LookupStat /\ RaceUnchanged
    \/ LookupUnlink /\ RaceUnchanged
    \/ LookupRead /\ RaceUnchanged
    \/ \E pair \in RacePairs : RaceStoreOpen(pair, PayloadB) /\ RaceUnchanged
    \/ RaceStoreDump /\ RaceUnchanged

SpecRace == InitRace /\ [][NextRace]_vars

\* The entries a sweep has to remove: all it found, or those aged past max age
DueAt(sweep) ==
    {path \in DOMAIN sweep.start :
        \/ sweep.kind = "clear_all"
        \/ sweep.current_time - sweep.start[path].mtime > max_age_seconds}

\* C21: under every interleaving of a sweep with lookups and stores no
\* call raises, a lookup returns absent or a complete stored payload, and
\* when clear_all (clear_expired) returns, every entry that existed (was
\* expired) when it started and was not stored again meanwhile is gone.
C21_BenignRace ==
    /\ last.op \in {"sweep", "lookup", "store"} => ~last.raised
    /\ last.op = "lookup" /\ last.result.hit =>
          last.result.entry.data \in Payloads
    /\ last.op = "sweep" =>
          \A path \in DueAt(last) \ last.restored : path \notin DOMAIN files

---------------------------------------------------------------------------
(* Validator harness: one call of validate_file on a sampled input *)

InitValidate ==
    /\ v_content \in SampleContents
    /\ v_filename \in SampleFilenames
    /\ v_result = NotCalled
    /\ CacheInit
    /\ HarnessIdle

Validate ==
    /\ ~v_result.called
    /\ v_result' = validate_file(v_content, v_filename)
    /\ UNCHANGED <<v_content, v_filename, files, now, last, enabled, h_vars>>

NextValidate == Validate

SpecValidate == InitValidate /\ [][NextValidate]_vars

\* The buffer starts with %PDF, is within the PDF limit and holds no pattern
CleanPdfBuffer(content) ==
    /\ Len(content.bytes) >= 4
    /\ SubSeq(content.bytes, 1, 4) = <<"%", "P", "D", "F">>
    /\ ContentLen(content) <= 52428800
    /\ \A i \in 1..Len(suspicious_patterns) :
          ~Contains(ContentLower(content), suspicious_patterns[i])

\* C1: whenever validate_file accepts, the lower-cased extension is pdf or
\* docx, the sniffed file_type equals it, the size is within that type's limit
\* (50 MiB pdf, 25 MiB docx), the content starts with a signature registered
\* for it, and none of the six patterns occurs case-insensitively.
C1_AcceptedImpliesAllChecks ==
    (v_result.called /\ v_result.accepted) =>
        LET ext == get_file_extension(v_filename)
        IN  /\ ext \in {ExtPdf, ExtDocx}
            /\ v_result.report.file_type = ExtKey(ext)
            /\ ContentLen(v_content) <= (IF ext = ExtPdf THEN 52428800 ELSE 26214400)
            /\ \E i \in 1..Len(allowed_signatures[ExtKey(ext)]) :
                  LET sig == allowed_signatures[ExtKey(ext)][i]
                  IN  /\ Len(v_content.bytes) >= Len(sig)
                      /\ SubSeq(v_content.bytes, 1, Len(sig)) = sig
            /\ \A p \in {PatScript, PatJavascript, PatVbscript,
                          PatIframe, PatObject, PatEmbed} :
                  \A i \in 1..Len(v_content.bytes) :
                      ~(/\ i + Len(p) - 1 <= Len(v_content.bytes)
                        /\ Lower(SubSeq(v_content.bytes, i, i + Len(p) - 1)) = p)

\* C1 witness: an upper-case .PDF name with a %PDF buffer of exactly 50 MiB
\* is accepted
C1_Witness ==
    /\ v_result.called /\ v_result.accepted
    /\ v_filename = NamePdfUpper
    /\ ContentLen(v_content) = 52428800

\* C2 as stated: a clean %PDF buffer is accepted under .pdf, and under .docx
\* it is rejected with the extension-does-not-match-content reason.
C2_Original ==
    (v_result.called /\ CleanPdfBuffer(v_content)) =>
        /\ get_file_extension(v_filename) = ExtPdf => v_result.accepted
        /\ get_file_extension(v_filename) = ExtDocx =>
              (~v_result.accepted /\ v_result.reason = ReasonMismatch)

\* C2 amended: a clean %PDF buffer is accepted under .pdf; under .docx it is
\* rejected by a check that runs before the extension/content agreement
\* check: with the size reason when it is longer than the 25 MiB docx limit,
\* and with the invalid-signature reason otherwise.
C2_Amended ==
    (v_result.called /\ CleanPdfBuffer(v_content)) =>
        /\ get_file_extension(v_filename) = ExtPdf =>
              (v_result.accepted /\ v_result.reason = ReasonPassed)
        /\ get_file_extension(v_filename) = ExtDocx =>
              /\ ~v_result.accepted
              /\ v_result.reason =
                    (IF ContentLen(v_content) > 26214400
                     THEN ReasonTooLargeDocx ELSE ReasonSignature)

\* C2 witness: a clean %PDF buffer under a .docx name, rejected for its signature
C2_Witness ==
    /\ v_result.called /\ CleanPdfBuffer(v_content)
    /\ get_file_extension(v_filename) = ExtDocx
    /\ ~v_result.accepted /\ v_result.reason = ReasonSignature

\* C20: validate_file runs its gating checks in the order size, signature,
\* suspicious-content scan, extension/content agreement, and the reason it
\* returns is that of the first check that fails; a buffer longer than the
\* limit of its extension gets the size reason whatever its signature is
\* and whatever the later checks would say.
C20_FirstFailingCheck ==
    v_result.called =>
        LET ext         == get_file_extension(v_filename)
            limit       == IF ext = ExtPdf THEN 52428800
                           ELSE IF ext = ExtDocx THEN 26214400
                           ELSE 0
            too_large   == ext \in {ExtPdf, ExtDocx} /\ ContentLen(v_content) > limit
            bad_sig     == ~validate_file_signature(v_content, ext)
            suspicious  == check_suspicious_content(v_content) # <<>>
            mismatch    == ~validate_extension_match(v_content, ext)
        IN  /\ v_result.reason =
                  (IF too_large THEN
                       (IF ext = ExtPdf THEN ReasonTooLargePdf ELSE ReasonTooLargeDocx)
                   ELSE IF bad_sig THEN ReasonSignature
                   ELSE IF suspicious THEN ReasonSuspicious
                   ELSE IF mismatch THEN ReasonMismatch
                   ELSE ReasonPassed)
            /\ v_result.accepted = (~too_large /\ ~bad_sig /\ ~suspicious /\ ~mismatch)

\* C20 witness: a buffer over the pdf limit that also has no pdf signature
\* and holds a script tag is rejected for its size
C20_Witness ==
    /\ v_result.called
    /\ v_filename = NamePdf
    /\ ContentLen(v_content) > 52428800
    /\ ~validate_file_signature(v_content, ExtPdf)
    /\ check_suspicious_content(v_content) # <<>>
    /\ v_result.reason = ReasonTooLargePdf

\* C16: for every buffer and filename, the empty buffer, the empty filename
\* and extensions other than pdf and docx included, validate_file returns a
\* triple (accepted, reason, report) and does not raise; on every rejection
\* the reason is a non-empty string, and the report carries the filename,
\* the size, the content digest and the file type sniffed from the content.
C16_AlwaysReturnsTriple ==
    v_result.called =>
        /\ DOMAIN v_result = {"called", "accepted", "reason", "report"}
        /\ v_result.accepted \in BOOLEAN
        /\ v_result.reason \in
               {ReasonTooLargePdf, ReasonTooLargeDocx, ReasonSignature,
                ReasonSuspicious, ReasonMismatch, ReasonPassed}
        /\ ~v_result.accepted =>
              /\ v_result.reason # ""
              /\ v_result.reason # ReasonPassed
        /\ {"filename", "file_size", "file_hash", "file_type"}
               \subseteq DOMAIN v_result.report
        /\ v_result.report.filename = v_filename
        /\ v_result.report.file_size = Len(v_content.bytes) + v_content.pad
        /\ v_result.report.file_hash = <<"sha256", v_content>>
        /\ v_result.report.file_type =
               (IF StartsWith(v_content, <<"%", "P", "D", "F">>) THEN "pdf"
                ELSE IF \/ StartsWith(v_content, <<"P", "K", "x03", "x04">>)
                        \/ StartsWith(v_content, <<"P", "K", "x05", "x06">>)
                THEN "docx"
                ELSE "unknown")

\* C16 witness: the empty buffer under the empty filename is rejected, with
\* a reason and a report
C16_Witness ==
    /\ v_result.called
    /\ v_content = MkContent(<<>>, 0)
    /\ v_filename = <<>>
    /\ ~v_result.accepted
    /\ v_result.reason = ReasonSignature
    /\ v_result.report.file_size = 0

\* C22: the sniffed type agrees with the table of allowed signatures: it
\* is docx exactly when the content begins with a signature allowed for
\* docx, pdf exactly when it begins with %PDF, unknown otherwise; so an
\* upload that passes the signature check for its extension also passes
\* the extension/content agreement check.
C22_SniffAgreesWithSignatures ==
    v_result.called =>
        LET detected_type == v_result.report.file_type
            extension     == get_file_extension(v_filename)
            begins(key)   == \E i \in 1..Len(allowed_signatures[key]) :
                                 StartsWith(v_content, allowed_signatures[key][i])
        IN  /\ detected_type = "docx" <=> begins("docx")
            /\ detected_type = "pdf" <=> begins("pdf")
            /\ detected_type \in {"docx", "pdf", "unknown"}
            /\ validate_file_signature(v_content, extension) =>
                   validate_extension_match(v_content, extension)

\* The risk indicators and what each adds to the score
IndicatorWeights ==
    [executable |-> 40, embedded |-> 25, macro |-> 30, links |-> 15, size |-> 10]

\* min(100, base + the weights of the indicators present)
ScoreOf(base, present) ==
    LET add(i) == IF i \in present THEN IndicatorWeights[i] ELSE 0
        sum    == base + add("executable") + add("embedded") + add("macro")
                       + add("links") + add("size")
    IN  IF sum < 100 THEN sum ELSE 100

\* The indicators present in the upload validate_file was called on
PresentIndicators ==
    LET analysis == v_result.report.security_checks.content_analysis
    IN  {i \in DOMAIN IndicatorWeights :
            \/ i = "executable" /\ analysis.executable_code
            \/ i = "embedded" /\ analysis.embedded_objects
            \/ i = "macro" /\ analysis.macro_content
            \/ i = "links" /\ analysis.external_links
            \/ i = "size" /\ ContentLen(v_content) > 10485760}

\* C25: the risk score is computed only for accepted files and equals
\* min(100, base + 40 [executable code] + 25 [embedded objects]
\* + 30 [macro keywords] + 15 [external links] + 10 [size > 10 MiB]), base
\* 10 for pdf and 15 for docx; so it is an integer in 0..100 and no
\* further indicator would make it smaller.
C25_RiskScore ==
    v_result.called =>
        LET checks == v_result.report.security_checks
            base   == IF v_result.report.file_type = "pdf" THEN 10 ELSE 15
        IN  /\ ("risk_score" \in DOMAIN checks) <=> v_result.accepted
            /\ v_result.accepted =>
                  /\ v_result.report.file_type \in {"pdf", "docx"}
                  /\ checks.risk_score = ScoreOf(base, PresentIndicators)
                  /\ checks.risk_score \in 0..100
                  /\ \A more \in SUBSET DOMAIN IndicatorWeights :
                        PresentIndicators \subseteq more =>
                            ScoreOf(base, more) >= checks.risk_score

\* C25 witness: an accepted docx that shows every content indicator, so that
\* the sum 15 + 40 + 25 + 30 + 15 is clamped to 100
C25_Witness ==
    /\ v_result.called /\ v_result.accepted
    /\ v_result.report.file_type = "docx"
    /\ PresentIndicators = {"executable", "embedded", "macro", "links"}
    /\ v_result.report.security_checks.risk_score = 100

---------------------------------------------------------------------------
(* The text patcher (services/modify.py).  A text is a sequence of        *)
(* one-character strings.  An issue handed to the patcher is a record     *)
(* [offset, length, context_improvement, enhanced]: a context_improvement *)
(* that is missing, None or '' is the empty sequence, an enhanced flag    *)
(* that is missing is FALSE.                                              *)

Quote == "\""

\* The position a slice bound i denotes in s: a negative bound counts from
\* the end, and a bound outside the sequence is clamped to it
SliceIndex(s, i) ==
    IF i < 0
    THEN (IF Len(s) + i < 0 THEN 0 ELSE Len(s) + i)
    ELSE (IF i > Len(s) THEN Len(s) ELSE i)

\* s[:i]
PyPrefix(s, i) == SubSeq(s, 1, SliceIndex(s, i))

\* s[i:]
PySuffix(s, i) == SubSeq(s, SliceIndex(s, i) + 1, Len(s))

\* improvement[1:-1] when the improvement starts and ends with a double
\* quote, the improvement otherwise
Replacement(improvement) ==
    IF /\ Len(improvement) >= 1
       /\ improvement[1] = Quote
       /\ improvement[Len(improvement)] = Quote
    THEN SubSeq(improvement, 2, Len(improvement) - 1)
    ELSE improvement

\* issue.get('context_improvement') and issue.get('enhanced')
Participates(issue) == issue.context_improvement # <<>> /\ issue.enhanced

\* One turn of the loop: the splice, for an issue that participates
ApplyIssue(improved_text, issue) ==
    IF Participates(issue)
    THEN PyPrefix(improved_text, issue.offset)
            \o Replacement(issue.context_improvement)
            \o PySuffix(improved_text, issue.offset + issue.length)
    ELSE improved_text

\* Where a stable descending sort puts x in a list it has sorted: behind
\* every element whose offset is not smaller
RECURSIVE InsertByOffset(_, _)
InsertByOffset(sorted, x) ==
    IF sorted = <<>> THEN <<x>>
    ELSE IF Head(sorted).offset >= x.offset
    THEN <<Head(sorted)>> \o InsertByOffset(Tail(sorted), x)
    ELSE <<x>> \o sorted

\* sorted(enhanced_issues, key=offset, reverse=True): descending by offset,
\* issues of equal offset in the order of the input list
RECURSIVE sorted_issues(_)
sorted_issues(enhanced_issues) ==
    IF enhanced_issues = <<>> THEN <<>>
    ELSE InsertByOffset(
             sorted_issues(SubSeq(enhanced_issues, 1, Len(enhanced_issues) - 1)),
             enhanced_issues[Len(enhanced_issues)])

\* for issue in sorted_issues: ...
RECURSIVE ApplyAll(_, _)
ApplyAll(improved_text, issues) ==
    IF issues = <<>> THEN improved_text
    ELSE ApplyAll(ApplyIssue(improved_text, Head(issues)), Tail(issues))

\* Mutant: the issues are applied in the order of the input list
apply_ai_context_improvements_InputOrder(text, enhanced_issues) ==
    ApplyAll(text, enhanced_issues)

apply_ai_context_improvements(text, enhanced_issues) ==
    IF enhanced_issues = <<>> THEN text
    ELSE ApplyAll(text, sorted_issues(enhanced_issues))

---------------------------------------------------------------------------
(* Patcher harness: one call of apply_ai_context_improvements on a        *)
(* sampled text and a sampled list of at most MaxIssues issues.           *)

MaxIssues == 2

TextAbcd == <<"a", "b", "c", "d">>
TextAb   == <<"a", "b">>
SampleTexts == {TextAbcd, TextAb}

ImpX       == <<"X">>
ImpQuotedY == <<Quote, "Y", "Z", Quote>>
ImpQuote   == <<Quote>>
ImpEmptyQuoted == <<Quote, Quote>>
ImpApostrophes == <<"'", "Y", "'">>
ImpOpenQuote   == <<Quote, "Y">>

PatchIssue(offset, length, improvement, flag) ==
    [offset |-> offset, length |-> length,
     context_improvement |-> improvement, enhanced |-> flag]

\* Issues with a span inside the texts, at their end or across it; issues
\* that do not participate; issues whose improvement is a lone double
\* quote, two double quotes, wrapped in apostrophes, or quoted on one side
\* only; issues with a negative offset or length
SampleIssues ==
    {PatchIssue(o, l, imp, TRUE) :
        o \in {0, 1, 2, 4}, l \in {0, 1, 2}, imp \in {ImpX, ImpQuotedY}}
    \cup {PatchIssue(1, 1, <<>>, TRUE), PatchIssue(1, 1, ImpX, FALSE)}
    \cup {PatchIssue(1, 1, imp, TRUE) :
             imp \in {ImpQuote, ImpEmptyQuoted, ImpApostrophes, ImpOpenQuote}}
    \cup {PatchIssue(-1, 1, ImpX, TRUE), PatchIssue(-1, 0, ImpX, TRUE),
          PatchIssue(5, 1, ImpX, TRUE), PatchIssue(1, -1, ImpX, TRUE)}

SampleIssueLists ==
    UNION {[1..n -> SampleIssues] : n \in 0..MaxIssues}

InitPatch ==
    /\ p_text \in SampleTexts
    /\ p_issues \in SampleIssueLists
    /\ p_result = NotCalled
    /\ EnhanceIdle
    /\ StoresIdle
    /\ v_again = NotCalled
    /\ OthersIdle
    /\ v_content = BufPdf
    /\ v_filename = NamePdf
    /\ v_result = NotCalled
    /\ CacheInit

Patch ==
    /\ ~p_result.called
    /\ p_result' = [called |-> TRUE,
                    text |-> apply_ai_context_improvements(p_text, p_issues)]
    /\ UNCHANGED <<p_text, p_issues, files, now, last, enabled, v_vars, e_vars, s_vars, v_again, x_vars>>

NextPatch == Patch

SpecPatch == InitPatch /\ [][NextPatch]_vars

\* The indices of the issues of a list that participate
ParticipatingIn(issues) == {i \in 1..Len(issues) : Participates(issues[i])}

\* The span of the issue lies within the text
InBounds(text, issue) ==
    /\ issue.offset >= 0
    /\ issue.length >= 0
    /\ issue.offset + issue.length <= Len(text)

\* Two spans overlap when they share a character, or when one is an
\* insertion point that lies strictly inside the other
Overlap(a, b) ==
    \/ /\ a.offset < b.offset + b.length
       /\ b.offset < a.offset + a.length
    \/ a.length = 0 /\ b.offset < a.offset /\ a.offset < b.offset + b.length
    \/ b.length = 0 /\ a.offset < b.offset /\ b.offset < a.offset + a.length

NonOverlapping(issues, among) ==
    \A i, j \in among : i # j => ~Overlap(issues[i], issues[j])

DistinctOffsets(issues, among) ==
    \A i, j \in among : i # j => issues[i].offset # issues[j].offset

\* The text read from position i (counted from 0) with every span of the
\* given issues replaced at once: each span is looked up in the text itself
RECURSIVE ReplacedFrom(_, _, _)
ReplacedFrom(text, spans, i) ==
    LET here == {q \in spans : q.offset = i}
        q    == CHOOSE q \in here : TRUE
        ins  == IF here = {} THEN <<>> ELSE Replacement(q.context_improvement)
        skip == IF here = {} THEN 0 ELSE q.length
    IN  IF skip > 0 THEN ins \o ReplacedFrom(text, spans, i + skip)
        ELSE IF i >= Len(text) THEN ins
        ELSE ins \o <<text[i + 1]>> \o ReplacedFrom(text, spans, i + 1)

TextExample ==
    <<"T", "h", "i", "s", " ", "a", "r", "e", " ", "a", " ",
      "t", "e", "s", "t", ".">>

TextExampleFixed ==
    <<"T", "h", "i", "s", " ", "i", "s", " ", "a", " ",
      "t", "e", "s", "t", ".">>

Permuted(issues, perm) == [i \in 1..Len(issues) |-> issues[perm[i]]]

OrdersOf(n) ==
    {perm \in [1..n -> 1..n] : \A i, j \in 1..n : i # j => perm[i] # perm[j]}

\* C13: for a list of issues whose spans lie in the text and are pairwise
\* non-overlapping, insertions of length 0 included, every permutation of
\* the list gives the same output text.
C13_OrderIndependent ==
    (/\ p_result.called
     /\ \A i \in 1..Len(p_issues) : InBounds(p_text, p_issues[i])
     /\ NonOverlapping(p_issues, 1..Len(p_issues)))
    => \A perm \in OrdersOf(Len(p_issues)) :
          apply_ai_context_improvements(p_text, Permuted(p_issues, perm))
              = p_result.text

\* The issue with its span cut down to the part that lies in the text
Clamped(text, issue) ==
    LET lo    == IF issue.offset < 0 THEN 0
                 ELSE IF issue.offset > Len(text) THEN Len(text)
                 ELSE issue.offset
        end   == issue.offset + issue.length
        hi    == IF end < lo THEN lo
                 ELSE IF end > Len(text) THEN Len(text)
                 ELSE end
    IN  [issue EXCEPT !.offset = lo, !.length = hi - lo]

\* Spans that can be replaced at once
Compatible(spans) ==
    \A a, b \in spans : a # b => (~Overlap(a, b) /\ a.offset # b.offset)

\* C14: an issue whose span lies partly or wholly outside the text is
\* either clamped to the text or skipped, and the other issues are still
\* applied: when the participating issues, each with its span cut down to
\* the text, can be replaced at once, the output is the text with the
\* in-bounds spans replaced, together with the clamped spans of some of the
\* out-of-bounds issues (the rest of them skipped), and no other position
\* of the text is altered.
C14_OutOfBoundsIsolated ==
    p_result.called =>
        LET part    == ParticipatingIn(p_issues)
            inside  == {p_issues[i] : i \in {j \in part : InBounds(p_text, p_issues[j])}}
            outside == {p_issues[i] : i \in {j \in part : ~InBounds(p_text, p_issues[j])}}
            clamped == {Clamped(p_text, q) : q \in outside}
        IN  (/\ Compatible(inside \cup clamped)
             /\ Cardinality(inside \cup clamped) = Cardinality(part))
            => \E kept \in SUBSET outside :
                   p_result.text =
                       ReplacedFrom(p_text,
                                    inside \cup {Clamped(p_text, q) : q \in kept}, 0)

\* An improvement wrapped in a matching pair of quote characters: it opens
\* with a double quote and closes with another one
Wrapped(improvement) ==
    /\ Len(improvement) >= 2
    /\ improvement[1] = Quote
    /\ improvement[Len(improvement)] = Quote

\* C24: the replacement the patcher substitutes is the improvement without
\* its two outer characters exactly when the improvement is wrapped in a
\* matching pair of quote characters; in every other case (a lone quote
\* character included) it is the improvement verbatim.
C24_QuoteStripping ==
    p_result.called =>
        /\ \A i \in 1..Len(p_issues) :
              LET improvement == p_issues[i].context_improvement
              IN  Replacement(improvement) =
                     IF Wrapped(improvement)
                     THEN SubSeq(improvement, 2, Len(improvement) - 1)
                     ELSE improvement
        /\ Len(p_issues) = 1 /\ Participates(p_issues[1]) /\ InBounds(p_text, p_issues[1]) =>
              LET issue == p_issues[1]
                  improvement == issue.context_improvement
              IN  p_result.text =
                     SubSeq(p_text, 1, issue.offset)
                     \o (IF Wrapped(improvement)
                         THEN SubSeq(improvement, 2, Len(improvement) - 1)
                         ELSE improvement)
                     \o SubSeq(p_text, issue.offset + issue.length + 1, Len(p_text))

---------------------------------------------------------------------------
(* sanitize_filename (services/security.py), which /modify applies to the *)
(* name of the document it returns.                                       *)

\* os.path.basename: what follows the last slash
basename(filename) ==
    SubSeq(filename, LastIndexOf(filename, "/") + 1, Len(filename))

dangerous_chars == <<"<", ">", ":", Quote, "|", "?", "*", "\\", "/">>

\* for char in dangerous_chars: filename = filename.replace(char, '_')
ReplaceDangerous(filename) ==
    [i \in 1..Len(filename) |->
        IF \E k \in 1..Len(dangerous_chars) : filename[i] = dangerous_chars[k]
        THEN "_" ELSE filename[i]]

\* os.path.splitext of a name without a slash: the extension starts at the
\* last dot, unless only dots stand before that dot
splitext(filename) ==
    LET dotIndex == LastIndexOf(filename, ".")
    IN  IF dotIndex > 0 /\ \E i \in 1..(dotIndex - 1) : filename[i] # "."
        THEN [name |-> SubSeq(filename, 1, dotIndex - 1),
              ext  |-> SubSeq(filename, dotIndex, Len(filename))]
        ELSE [name |-> filename, ext |-> <<>>]

\* if len(filename) > 100
max_filename_length == 100

\* name[:95]
kept_name_length == 95

\* sanitize_filename
sanitize_filename(filename) ==
    LET replaced == ReplaceDangerous(basename(filename))
    IN  IF Len(replaced) > max_filename_length
        THEN PyPrefix(splitext(replaced).name, kept_name_length)
                \o splitext(replaced).ext
        ELSE replaced

Repeat(c, n) == [i \in 1..n |-> c]

\* Names with and without directories, with stems around the two lengths
\* the code compares with, and with extensions short, long, absent and
\* holding a character that is replaced
SanitizeDirs == {<<>>, <<"d", "/">>, <<".", ".", "/">>, <<".", ".", "\\">>}
SanitizeStems ==
    {Repeat("a", n) : n \in {0, 1, 94, 95, 96, 100, 101}}
    \cup {<<"<", "a", ">">>, <<"a", ".", "b">>}
SanitizeExts ==
    {<<>>, <<".", "p", "d", "f">>, <<".", "d", "o", "c", "x">>,
     <<".", "p", "?", "f">>, <<".", "b", "b", "b", "b", "b", "b">>}

SanitizeInputs ==
    {dir \o stem \o ext :
        dir \in SanitizeDirs, stem \in SanitizeStems, ext \in SanitizeExts}

InitSanitize ==
    /\ v_content = BufPdf
    /\ v_filename \in SanitizeInputs
    /\ v_result = NotCalled
    /\ CacheInit
    /\ HarnessIdle

\* output_name = security_validator.sanitize_filename(output_name)
Sanitize ==
    /\ ~v_result.called
    /\ v_result' = [called |-> TRUE, name |-> sanitize_filename(v_filename)]
    /\ UNCHANGED <<v_content, v_filename, files, now, last, enabled, h_vars>>

NextSanitize == Sanitize

SpecSanitize == InitSanitize /\ [][NextSanitize]_vars

\* C27: for every input filename sanitize_filename returns a name with no
\* path component and none of the characters < > : " | ? * \ /, at most
\* 100 characters long, whose extension is that of the input's base name.
C27_SanitizedName ==
    v_result.called =>
        /\ \A i \in 1..Len(v_result.name) :
              \A k \in 1..Len(dangerous_chars) : v_result.name[i] # dangerous_chars[k]
        /\ Len(v_result.name) <= 100
        /\ splitext(v_result.name).ext = splitext(basename(v_filename)).ext

---------------------------------------------------------------------------
(* The enhanced correction of /modify (main.py, services/modify.py): the  *)
(* extracted text is checked by the grammar engine, the issues found are  *)
(* enriched, and generate_enhanced_corrected_text corrects the grammar    *)
(* and then patches the improvements in.  A match of the grammar engine   *)
(* is [offset, length, replacements], its replacements sequences of       *)
(* characters; the engine returns matches in ascending order of offset    *)
(* and never two that overlap.                                            *)

\* tool.correct(text) of language_tool_python: every match that has a
\* replacement is replaced by its first one, the matches to its right
\* moving with the change of length
RECURSIVE tool_correct(_, _)
tool_correct(text, matches) ==
    IF matches = <<>> THEN text
    ELSE LET match == matches[Len(matches)]
             corrected ==
                 IF match.replacements = <<>> THEN text
                 ELSE PyPrefix(text, match.offset) \o match.replacements[1]
                         \o PySuffix(text, match.offset + match.length)
         IN  tool_correct(corrected, SubSeq(matches, 1, Len(matches) - 1))

\* What the grammar engine does when asked to correct: it answers or fails
ToolOutcomes == {"ok", "error"}

\* generate_corrected_text: the text itself when the engine fails
generate_corrected_text(text, matches, tool) ==
    IF tool = "ok" THEN tool_correct(text, matches) ELSE text

\* generate_enhanced_corrected_text: buffer is the text handed to the
\* patcher, text the text returned
generate_enhanced_corrected_text(text, enhanced_issues, tool) ==
    LET grammar_corrected == generate_corrected_text(text, enhanced_issues, tool)
    IN  [buffer |-> grammar_corrected,
         text   |-> apply_ai_context_improvements(grammar_corrected, enhanced_issues)]

TextItAre == <<"i", "t", " ", "a", "r", "e", " ", "o", "k">>

Match(offset, length, replacements) ==
    [offset |-> offset, length |-> length, replacements |-> replacements]

\* Matches of the grammar engine on TextItAre: 'it' -> 'It', 'are' -> 'is',
\* 'ok' without a replacement, 'ok' -> 'okay'
MatchIt     == Match(0, 2, <<<<"I", "t">>>>)
MatchAre    == Match(3, 3, <<<<"i", "s">>>>)
MatchOk     == Match(7, 2, <<>>)
MatchOkay   == Match(7, 2, <<<<"o", "k", "a", "y">>>>)

\* checker.check_text(text)["issues"]: what the engine may report
SampleReports ==
    {<<>>, <<MatchIt>>, <<MatchAre>>, <<MatchOk>>, <<MatchOkay>>,
     <<MatchIt, MatchAre>>, <<MatchIt, MatchOk>>, <<MatchIt, MatchOkay>>,
     <<MatchAre, MatchOk>>, <<MatchAre, MatchOkay>>,
     <<MatchIt, MatchAre, MatchOk>>, <<MatchIt, MatchAre, MatchOkay>>}

\* enhance_grammar_analysis on a report: each issue keeps its fields and
\* gains the improvement the language model gave for it, if it gave one
Enriched(issues, improvements) ==
    [i \in 1..Len(issues) |->
        issues[i] @@ [context_improvement |-> improvements[i],
                      enhanced |-> improvements[i] # <<>>]]

SampleEnriched ==
    UNION {{Enriched(issues, improvements) :
               improvements \in [1..Len(issues) -> {<<>>, ImpX, ImpQuotedY}]} :
           issues \in SampleReports}

InitModifyText ==
    /\ m_text = TextItAre
    /\ m_issues \in SampleEnriched
    /\ m_result = NotCalled
    /\ PatchIdle
    /\ EnhanceIdle
    /\ StoresIdle
    /\ RaceIdle
    /\ NothingStored
    /\ v_again = NotCalled
    /\ v_content = BufPdf
    /\ v_filename = NamePdf
    /\ v_result = NotCalled
    /\ files = EmptyDir
    /\ now = 0
    /\ last = [op |-> "none"]
    /\ enabled = TRUE

\* modify, format "enhanced" with enhanced issues:
\* corrected_text = generate_enhanced_corrected_text(text, enhanced_issues)
ModifyText(tool) ==
    /\ ~m_result.called
    /\ m_issues # <<>>
    /\ m_result' = [called |-> TRUE, tool |-> tool] @@
                   generate_enhanced_corrected_text(m_text, m_issues, tool)
    /\ UNCHANGED <<m_text, m_issues, files, now, last, enabled, v_vars, p_vars,
                   e_vars, s_vars, v_again, r_vars, a_stored>>

NextModifyText == \E tool \in ToolOutcomes : ModifyText(tool)

SpecModifyText == InitModifyText /\ [][NextModifyText]_vars

\* text[offset:offset + length]
SpanOf(text, issue) ==
    SubSeq(text, issue.offset + 1, issue.offset + issue.length)

\* C23: in /modify the buffer handed to the patcher is the text the issue
\* offsets were computed against, so each participating issue's
\* [offset, offset + length) addresses in that buffer the span the issue
\* was reported for.
C23_PatchesCheckedText ==
    m_result.called =>
        /\ m_result.buffer = m_text
        /\ \A i \in 1..Len(m_issues) :
              Participates(m_issues[i]) =>
                  SpanOf(m_result.buffer, m_issues[i]) = SpanOf(m_text, m_issues[i])

---------------------------------------------------------------------------
(* The service (main.py): /analyze, /modify, /cache/clear and the startup *)
(* sweep, on a filesystem whose calls do not fail.  Extraction, the       *)
(* grammar engine and the language-model service are collaborators: what  *)
(* each returns for a request is an input of the request.                 *)

BufScript == [bytes |-> SigPdf \o <<"<", "S", "C", "R", "I", "P", "T", ">">>, pad |-> 0]
BufZip78  == [bytes |-> SigZip78 \o <<"x">>, pad |-> 0]
BufText   == [bytes |-> <<"H", "e", "l", "l", "o">>, pad |-> 0]
BufBigDocx == MkContent(SigZip34, 25 * MiB + 1)

\* An upload: its bytes and the filename of the form part (<<>>: none given)
Upload(content, filename) == [content |-> content, filename |-> filename]

Uploads ==
    {Upload(BufPdf, NamePdf), Upload(BufDocx, NameDocx),
     Upload(BufScript, NamePdf),
     Upload(BufZip78, NameDocx), Upload(BufText, NameTxt),
     Upload(BufPdf, <<>>), Upload(BufBigDocx, NameDocx)}

\* file.filename or "uploaded"
FilenameOf(upload) == IF upload.filename = <<>> THEN NameUploaded ELSE upload.filename

\* security_validator.validate_file(file_content, file.filename or "uploaded"),
\* tabulated over the uploads
ValidationOf ==
    [upload \in Uploads |-> validate_file(upload.content, FilenameOf(upload))]

\* extract_text_from_upload: a text, ValueError (no extractable text), or an
\* exception of the container library
TextA == "This are a test."

Extractions ==
    {[kind |-> "text", text |-> TextA],
     [kind |-> "ValueError",
      detail |-> "No extractable text found in the uploaded document."],
     [kind |-> "Exception"]}

\* checker.check_text: the issues of the text, or none when the engine is
\* unreachable
IssueLists == {<<>>, <<IssueA>>}

\* What the language-model calls of one request do: answer, or fail
LlmOutcomes == {"ok", "error"}

\* analyze_context_clarity
analyze_context_clarity(en, llm) ==
    IF ~en THEN ClarityDisabled
    ELSE IF llm = "ok"
    THEN [context_clarity_enabled |-> TRUE, analysis |-> "parsed",
          model_used |-> "gpt-3.5-turbo"]
    ELSE [context_clarity_enabled |-> TRUE, error |-> "api",
          message |-> "Context clarity analysis failed due to API error"]

\* get_writing_style_analysis
get_writing_style_analysis(en, llm) ==
    IF ~en THEN StyleDisabled
    ELSE IF llm = "ok"
    THEN [enabled |-> TRUE, analysis |-> "style", model_used |-> "gpt-3.5-turbo"]
    ELSE [enabled |-> TRUE, error |-> "api",
          message |-> "Writing style analysis failed"]

\* _get_context_improvement: the stripped answer of the model (it may be
\* the empty string), or None when the call failed
NoImprovement == "None"
get_context_improvement(llm) ==
    IF llm = "ok" THEN "is"
    ELSE IF llm = "empty" THEN ""
    ELSE NoImprovement

\* if improvement:
Truthy(improvement) == improvement # NoImprovement /\ improvement # ""

\* Mutant: every issue is flagged enhanced, with or without an improvement
enhance_grammar_analysis_FlagsAll(en, issues, llm) ==
    IF ~en THEN issues
    ELSE [i \in 1..Len(issues) |->
            IF issues[i].context # "" /\ Truthy(get_context_improvement(llm))
            THEN issues[i] @@ [context_improvement |-> get_context_improvement(llm),
                               enhanced |-> TRUE]
            ELSE issues[i] @@ [enhanced |-> TRUE]]

\* enhance_grammar_analysis
enhance_grammar_analysis(en, issues, llm) ==
    IF ~en THEN issues
    ELSE [i \in 1..Len(issues) |->
            IF issues[i].context # "" /\ Truthy(get_context_improvement(llm))
            THEN issues[i] @@ [context_improvement |-> get_context_improvement(llm),
                               enhanced |-> TRUE]
            ELSE issues[i]]

---------------------------------------------------------------------------
(* Enrichment harness: one call of enhance_grammar_analysis on a sampled  *)
(* list of at most MaxIssues issues, with the analyzer enabled or not.    *)

\* An issue without context, and two more with context
IssueB ==
    [message |-> "spelling", rule |-> "misspelling", offset |-> 0, length |-> 4,
     replacements |-> <<"This", "Thus">>, context |-> ""]

IssueC ==
    [message |-> "punctuation", rule |-> "typographical", offset |-> 15,
     length |-> 1, replacements |-> <<>>, context |-> "a test."]

IssueD ==
    [message |-> "style", rule |-> "style", offset |-> 9, length |-> 1,
     replacements |-> <<"one">>, context |-> "are a test"]

EnhanceIssues == {IssueA, IssueB, IssueC, IssueD}

EnhanceIssueLists == UNION {[1..n -> EnhanceIssues] : n \in 0..MaxIssues}

\* What the language model does when asked for an improvement: it answers,
\* answers with nothing but white space, or the call fails
EnhanceOutcomes == {"ok", "empty", "error"}

InitEnhance ==
    /\ e_issues \in EnhanceIssueLists
    /\ e_result = NotCalled
    /\ enabled \in BOOLEAN
    /\ PatchIdle
    /\ StoresIdle
    /\ v_again = NotCalled
    /\ OthersIdle
    /\ v_content = BufPdf
    /\ v_filename = NamePdf
    /\ v_result = NotCalled
    /\ files = EmptyDir
    /\ now = 0
    /\ last = [op |-> "none"]

Enhance(llm) ==
    /\ ~e_result.called
    /\ e_result' = [called |-> TRUE, llm |-> llm,
                    issues |-> enhance_grammar_analysis(enabled, e_issues, llm)]
    /\ UNCHANGED <<e_issues, files, now, last, enabled, v_vars, p_vars, s_vars, v_again, x_vars>>

NextEnhance == \E llm \in (IF enabled THEN EnhanceOutcomes ELSE {"error"}) : Enhance(llm)

SpecEnhance == InitEnhance /\ [][NextEnhance]_vars

\* C17: enhance_grammar_analysis returns as many issues as it was given, in
\* the same order, each with its message, offset, length and replacements
\* unchanged; with the service disabled it returns the input issues
\* unmodified; and an issue is flagged enhanced only when it carries a
\* non-empty context_improvement.
C17_EnrichmentPreservesIssues ==
    e_result.called =>
        /\ Len(e_result.issues) = Len(e_issues)
        /\ \A i \in 1..Len(e_issues) :
              /\ e_result.issues[i].message = e_issues[i].message
              /\ e_result.issues[i].offset = e_issues[i].offset
              /\ e_result.issues[i].length = e_issues[i].length
              /\ e_result.issues[i].replacements = e_issues[i].replacements
              /\ ("enhanced" \in DOMAIN e_result.issues[i]
                    /\ e_result.issues[i].enhanced)
                 => /\ "context_improvement" \in DOMAIN e_result.issues[i]
                    /\ e_result.issues[i].context_improvement \notin {"", "None"}
        /\ ~enabled => e_result.issues = e_issues

\* C17 witness: with the service enabled, a list of an issue with context
\* and one without comes back with the first enhanced and the second as it
\* was
C17_Witness ==
    /\ e_result.called
    /\ enabled
    /\ e_issues = <<IssueC, IssueB>>
    /\ "enhanced" \in DOMAIN e_result.issues[1]
    /\ e_result.issues[1].enhanced
    /\ e_result.issues[1].context_improvement = "is"
    /\ e_result.issues[2] = IssueB

DetailAnalysis == "Internal server error during analysis"
DetailModification == "Internal server error during modification"

Returned(response) == [kind |-> "return", response |-> response]
Raised(kind, status, detail) == [kind |-> kind, status |-> status, detail |-> detail]

\* The except clauses of a handler: ValueError becomes a 400 carrying its
\* message, every other Exception (HTTPException is one) a 500 with a fixed
\* detail
ExceptClauses(outcome, generic_detail) ==
    IF outcome.kind = "return" THEN outcome.response
    ELSE IF outcome.kind = "ValueError"
    THEN [status |-> 400, detail |-> outcome.detail]
    ELSE [status |-> 500, detail |-> generic_detail]

\* Mutant: a result without issues is returned but not stored
analyze_accepted_SkipsEmpty(fs, t, en, content, filename, v, extraction, issues, llm) ==
    LET cached == cache_get(fs, t, content, filename, "none")
        context_analysis == analyze_context_clarity(en, llm)
        writing_style_analysis == get_writing_style_analysis(en, llm)
        enhanced_issues == enhance_grammar_analysis(en, issues, llm)
        cache_data ==
            [num_issues      |-> Len(enhanced_issues),
             issues          |-> enhanced_issues,
             context_clarity |-> context_analysis,
             writing_style   |-> writing_style_analysis]
    IN  IF cached.result.hit
        THEN [outcome |-> Returned(AnalyzeHitResponse(filename, cached.result.entry,
                                                      v.report)),
              files   |-> cached.files,
              calls   |-> <<"validate_file", "cache.get">>]
        ELSE IF extraction.kind # "text"
        THEN [outcome |-> IF extraction.kind = "ValueError"
                          THEN Raised("ValueError", 400, extraction.detail)
                          ELSE Raised("Exception", 500, "extraction"),
              files   |-> cached.files,
              calls   |-> <<"validate_file", "cache.get", "extract">>]
        ELSE [outcome |-> Returned(cache_data @@
                              [status |-> 200, file_name |-> filename,
                               cache_hit |-> FALSE, security_info |-> v.report]),
              files   |-> IF issues = <<>> THEN cached.files
                          ELSE cache_set(cached.files, t, content, filename,
                                         cache_data, "none").files,
              calls   |-> <<"validate_file", "cache.get", "extract",
                            "check_text", "context_analyzer", "cache.set">>]

\* The try block of analyze, after validation accepted the upload
analyze_accepted(fs, t, en, content, filename, v, extraction, issues, llm) ==
    LET cached == cache_get(fs, t, content, filename, "none")
    IN  IF cached.result.hit
        THEN [outcome |-> Returned(AnalyzeHitResponse(filename, cached.result.entry,
                                                      v.report)),
              files   |-> cached.files,
              calls   |-> <<"validate_file", "cache.get">>]
        ELSE IF extraction.kind # "text"
        THEN [outcome |-> IF extraction.kind = "ValueError"
                          THEN Raised("ValueError", 400, extraction.detail)
                          ELSE Raised("Exception", 500, "extraction"),
              files   |-> cached.files,
              calls   |-> <<"validate_file", "cache.get", "extract">>]
        ELSE LET context_analysis == analyze_context_clarity(en, llm)
                 writing_style_analysis == get_writing_style_analysis(en, llm)
                 enhanced_issues == enhance_grammar_analysis(en, issues, llm)
                 cache_data ==
                     [num_issues      |-> Len(enhanced_issues),
                      issues          |-> enhanced_issues,
                      context_clarity |-> context_analysis,
                      writing_style   |-> writing_style_analysis]
                 stored == cache_set(cached.files, t, content, filename,
                                     cache_data, "none")
             IN  [outcome |-> Returned(
                      [status          |-> 200,
                       file_name       |-> filename,
                       num_issues      |-> Len(enhanced_issues),
                       issues          |-> enhanced_issues,
                       cache_hit       |-> FALSE,
                       security_info   |-> v.report,
                       context_clarity |-> context_analysis,
                       writing_style   |-> writing_style_analysis]),
                  files   |-> stored.files,
                  calls   |-> <<"validate_file", "cache.get", "extract",
                                "check_text", "context_analyzer", "cache.set">>]

\* Mutant: the cache is consulted before the upload is validated
analyze_CacheFirst(fs, t, en, upload, extraction, issues, llm) ==
    LET content  == upload.content
        filename == FilenameOf(upload)
        v        == ValidationOf[upload]
        r        == analyze_accepted(fs, t, en, content, filename, v,
                                     extraction, issues, llm)
    IN  [validation |-> v,
         files      |-> r.files,
         calls      |-> r.calls,
         response   |-> IF v.accepted
                        THEN ExceptClauses(r.outcome, DetailAnalysis)
                        ELSE [status |-> 500, detail |-> DetailAnalysis]]

\* analyze
analyze(fs, t, en, upload, extraction, issues, llm) ==
    LET content  == upload.content
        filename == FilenameOf(upload)
        v        == ValidationOf[upload]
    IN  IF ~v.accepted
        THEN [validation |-> v,
              files      |-> fs,
              calls      |-> <<"validate_file">>,
              response   |-> ExceptClauses(Raised("HTTPException", 400, v.reason),
                                           DetailAnalysis)]
        ELSE LET r == analyze_accepted(fs, t, en, content, filename, v,
                                       extraction, issues, llm)
             IN  [validation |-> v,
                  files      |-> r.files,
                  calls      |-> r.calls,
                  response   |-> ExceptClauses(r.outcome, DetailAnalysis)]

Formats == {"enhanced", "annotated", "comparison", "basic", "other"}

\* The try block of modify, after validation accepted the upload
modify_accepted(en, format, extraction, issues, llm) ==
    IF extraction.kind # "text"
    THEN [outcome |-> IF extraction.kind = "ValueError"
                      THEN Raised("ValueError", 400, extraction.detail)
                      ELSE Raised("Exception", 500, "extraction"),
          calls   |-> <<"validate_file", "extract">>]
    ELSE LET enhanced_issues ==
                 IF en THEN enhance_grammar_analysis(en, issues, llm) ELSE <<>>
             calls ==
                 IF en THEN <<"validate_file", "extract", "check_text",
                              "context_analyzer">>
                 ELSE <<"validate_file", "extract">>
             branch ==
                 IF format = "enhanced" /\ enhanced_issues # <<>> THEN "_ai_enhanced.docx"
                 ELSE IF format = "annotated" /\ enhanced_issues # <<>>
                 THEN "_ai_annotated.docx"
                 ELSE IF format = "comparison" /\ enhanced_issues # <<>>
                 THEN "_ai_comparison.docx"
                 ELSE "_corrected.docx"
             \* docx_bytes is assigned in the annotated and comparison branches,
             \* and after the branches when format is neither of the two
             docx_bytes_bound ==
                 \/ branch \in {"_ai_annotated.docx", "_ai_comparison.docx"}
                 \/ format \notin {"annotated", "comparison"}
         IN  [outcome |-> IF docx_bytes_bound
                          THEN Returned([status |-> 200, output_suffix |-> branch,
                                         format |-> format,
                                         ai_enhanced |-> (enhanced_issues # <<>>
                                                          /\ format # "basic")])
                          ELSE Raised("Exception", 500, "UnboundLocalError"),
              calls   |-> calls]

\* modify
modify(en, upload, format, extraction, issues, llm) ==
    LET content  == upload.content
        filename == FilenameOf(upload)
        v        == ValidationOf[upload]
    IN  IF ~v.accepted
        THEN [validation |-> v,
              calls      |-> <<"validate_file">>,
              response   |-> ExceptClauses(Raised("HTTPException", 400, v.reason),
                                           DetailModification)]
        ELSE LET r == modify_accepted(en, format, extraction, issues, llm)
             IN  [validation |-> v,
                  calls      |-> r.calls,
                  response   |-> ExceptClauses(r.outcome, DetailModification)]

Analyze(upload, extraction, issues, llm) ==
    LET r == analyze(files, now, enabled, upload, extraction, issues, llm)
    IN  /\ files' = r.files
        /\ last' = [op |-> "analyze", upload |-> upload, pre |-> files,
                    validation |-> r.validation, calls |-> r.calls,
                    response |-> r.response]
        /\ UNCHANGED <<now, enabled, v_vars, h_vars>>

Modify(upload, format, extraction, issues, llm) ==
    LET r == modify(enabled, upload, format, extraction, issues, llm)
    IN  /\ last' = [op |-> "modify", upload |-> upload, pre |-> files,
                    extraction |-> extraction.kind,
                    validation |-> r.validation, calls |-> r.calls,
                    response |-> r.response]
        /\ UNCHANGED <<files, now, enabled, v_vars, h_vars>>

Init ==
    /\ v_content = BufPdf
    /\ v_filename = NamePdf
    /\ v_result = NotCalled
    /\ files = EmptyDir
    /\ now = 0
    /\ last = [op |-> "none"]
    /\ enabled \in BOOLEAN
    /\ HarnessIdle

\* The collaborators answer only when they are called: a rejected upload
\* reaches none of them, a failed extraction is followed by no analysis, and
\* the language model is called only when the analyzer is enabled.  modify
\* reads its format parameter only after the text was extracted, so one
\* format stands for all in the requests that do not get that far.
NoExtraction == [kind |-> "Exception"]

Rejected == {upload \in Uploads : ~ValidationOf[upload].accepted}
Accepted == {upload \in Uploads : ValidationOf[upload].accepted}

Failures == {extraction \in Extractions : extraction.kind # "text"}
Texts    == {extraction \in Extractions : extraction.kind = "text"}

LlmCalled == IF enabled THEN LlmOutcomes ELSE {"error"}

Next ==
    \/ \E upload \in Rejected : Analyze(upload, NoExtraction, <<>>, "error")
    \/ \E upload \in Accepted, extraction \in Failures :
          Analyze(upload, extraction, <<>>, "error")
    \/ \E upload \in Accepted, extraction \in Texts,
          issues \in IssueLists, llm \in LlmCalled :
          Analyze(upload, extraction, issues, llm)
    \/ \E upload \in Rejected : Modify(upload, "enhanced", NoExtraction, <<>>, "error")
    \/ \E upload \in Accepted, extraction \in Failures :
          Modify(upload, "enhanced", extraction, <<>>, "error")
    \/ \E upload \in Accepted, format \in Formats, extraction \in Texts,
          issues \in (IF enabled THEN IssueLists ELSE {<<>>}), llm \in LlmCalled :
          Modify(upload, format, extraction, issues, llm)
    \/ ClearExpired
    \/ ClearAll
    \/ Tick(max_age_seconds)

Spec == Init /\ [][Next]_vars

IsRequest == last.op \in {"analyze", "modify"}

\* C3: when validate_file rejects the upload of an /analyze or /modify
\* request, the request ends in an error response and validate_file is the
\* only call it makes: no cache lookup, cache store, extraction or analysis,
\* and the cache directory is left as it was.  A request that reads or writes
\* the cache has called validate_file first, on the same content and filename,
\* and was accepted; the directory only ever holds entries of accepted uploads.
C3_ValidateBeforeCache ==
    /\ (IsRequest /\ ~last.validation.accepted) =>
          /\ last.response.status # 200
          /\ last.response.status \in {400, 500}
          /\ last.calls = <<"validate_file">>
          /\ files = last.pre
    /\ IsRequest =>
          /\ last.calls[1] = "validate_file"
          /\ last.validation = ValidationOf[last.upload]
          /\ (\E i \in 1..Len(last.calls) : last.calls[i] \in {"cache.get", "cache.set"})
                => (last.validation.accepted /\ last.op = "analyze")
    /\ \A path \in DOMAIN files :
          \E upload \in Uploads :
              /\ path = PathOf(<<upload.content, FilenameOf(upload)>>)
              /\ ValidationOf[upload].accepted

\* C3 witness: a rejected /analyze arriving while the cache holds entries
C3_Witness ==
    /\ last.op = "analyze"
    /\ ~last.validation.accepted
    /\ last.validation.reason = ReasonSuspicious
    /\ DOMAIN files # {}

\* C4: when validate_file rejects the upload, the response of /analyze and of
\* /modify is a 400 whose detail is the reason validate_file returned.
C4_RejectionSurfacesReason ==
    (IsRequest /\ ~last.validation.accepted) =>
        /\ last.response.status = 400
        /\ last.response.detail = last.validation.reason

\* C15: a /modify request whose upload passes validation and whose text is
\* extracted is answered 200 with a DOCX attachment, whatever the format
\* parameter is; when the language-model service is disabled the document is
\* the basic grammar correction.
C15_ModifyAlwaysReturnsDocx ==
    (/\ last.op = "modify"
     /\ last.validation.accepted
     /\ last.extraction = "text")
    => /\ last.response.status = 200
       /\ ~enabled => last.response.output_suffix = "_corrected.docx"

---------------------------------------------------------------------------
(* /analyze requests over time, with a record of what each of them stored *)
(* kept beside the cache directory: a_stored maps the path of an entry to *)
(* the time and the result of the last /analyze that stored it, and is    *)
(* left alone by the sweeps.                                              *)

\* The part of an /analyze response that is cached
ResultOf(response) ==
    [num_issues      |-> response.num_issues,
     issues          |-> response.issues,
     context_clarity |-> response.context_clarity,
     writing_style   |-> response.writing_style]

Calls(calls, name) == \E i \in 1..Len(calls) : calls[i] = name

AnalyzeLogged(upload, extraction, issues, llm) ==
    LET r    == analyze(files, now, enabled, upload, extraction, issues, llm)
        path == PathOf(<<upload.content, FilenameOf(upload)>>)
    IN  /\ files' = r.files
        /\ last' = [op |-> "analyze", upload |-> upload, pre |-> files,
                    known |-> a_stored,
                    extraction |-> IF Calls(r.calls, "extract")
                                   THEN extraction.kind ELSE "none",
                    validation |-> r.validation, calls |-> r.calls,
                    response |-> r.response]
        /\ a_stored' =
              IF Calls(r.calls, "cache.set")
              THEN WriteFile(a_stored, path,
                             [at |-> now, data |-> ResultOf(r.response)])
              ELSE a_stored
        /\ UNCHANGED <<now, enabled, v_vars, p_vars, e_vars, s_vars, v_again,
                       r_vars, m_vars>>

\* The entry of an upload would answer a request made now
Cached(upload) ==
    LET path == PathOf(<<upload.content, FilenameOf(upload)>>)
    IN  path \in DOMAIN files /\ now - files[path].mtime <= max_age_seconds

\* As in Next, the collaborators answer only when they are called: not for
\* a rejected upload, not for one the cache answers, and after a failed
\* extraction neither the grammar engine nor the language model
Called(upload, extraction, issues, llm) ==
    IF upload \in Rejected \/ Cached(upload)
    THEN extraction = NoExtraction /\ issues = <<>> /\ llm = "error"
    ELSE extraction \in Failures => (issues = <<>> /\ llm = "error")

AnalyzeRequest ==
    \E upload \in Uploads, extraction \in Extractions,
       issues \in IssueLists, llm \in LlmCalled :
        /\ Called(upload, extraction, issues, llm)
        /\ AnalyzeLogged(upload, extraction, issues, llm)

NextAnalyze ==
    \/ AnalyzeRequest
    \/ ClearExpired
    \/ ClearAll
    \/ Tick(max_age_seconds)

SpecAnalyze == Init /\ [][NextAnalyze]_vars

\* The path of the entry of the last request
LastPath == PathOf(<<last.upload.content, FilenameOf(last.upload)>>)

\* The last request was an /analyze of an accepted upload that missed the
\* cache: no entry, or one aged past max age
LastMissed ==
    /\ last.op = "analyze"
    /\ last.validation.accepted
    /\ \/ LastPath \notin DOMAIN last.pre
       \/ now - last.pre[LastPath].mtime > max_age_seconds

\* The response of the last request is a cache hit carrying this result and
\* the request called neither extraction, nor the grammar engine, nor the
\* language model
AnsweredFromCache(result) ==
    /\ last.response.status = 200
    /\ last.response.cache_hit
    /\ ResultOf(last.response) = result
    /\ last.calls = <<"validate_file", "cache.get">>

\* An /analyze that misses and whose extraction succeeds stores its result
\* under the (content, filename) key, whatever the grammar engine and the
\* language model did
StoresOnMiss ==
    (LastMissed /\ last.extraction = "text") =>
        /\ last.response.status = 200
        /\ ~last.response.cache_hit
        /\ LastPath \in DOMAIN files
        /\ files[LastPath].mtime = now
        /\ ~JsonLoadRaises(files[LastPath].text)
        /\ JsonLoad(files[LastPath].text).data = ResultOf(last.response)

\* C26 as stated: an /analyze that misses the cache and whose extraction
\* succeeds stores its result, also when the grammar engine was unreachable
\* or the language model failed; every later /analyze of the same content
\* and filename within max age of that store is answered from the cache
\* with the stored result, without extraction, grammar engine or language
\* model.
C26_Original ==
    /\ StoresOnMiss
    /\ (/\ last.op = "analyze"
        /\ last.validation.accepted
        /\ LastPath \in DOMAIN last.known
        /\ now - last.known[LastPath].at <= max_age_seconds)
       => AnsweredFromCache(last.known[LastPath].data)

\* C26 amended: an /analyze that misses the cache and whose extraction
\* succeeds stores its result, also when the grammar engine was unreachable
\* or the language model failed; every later /analyze of the same content
\* and filename within max age of that store is answered from the cache
\* with the stored result, without extraction, grammar engine or language
\* model, provided no clear_all (POST /cache/clear, shutdown) removed the
\* entry in between.  An entry in the directory is always the one the last
\* storing /analyze wrote.
C26_Amended ==
    /\ StoresOnMiss
    /\ \A path \in DOMAIN files :
          /\ path \in DOMAIN a_stored
          /\ files[path].mtime = a_stored[path].at
          /\ JsonLoad(files[path].text).data = a_stored[path].data
    /\ (/\ last.op = "analyze"
        /\ last.validation.accepted
        /\ LastPath \in DOMAIN last.known
        /\ now - last.known[LastPath].at <= max_age_seconds
        /\ LastPath \in DOMAIN last.pre)
       => /\ AnsweredFromCache(last.known[LastPath].data)
          /\ files = last.pre

\* C26 witness: an /analyze answered from an entry that is exactly max age
\* old and holds the empty issue list of a request that found the grammar
\* engine unreachable
C26_Witness ==
    /\ last.op = "analyze"
    /\ LastPath \in DOMAIN last.known
    /\ now - last.known[LastPath].at = max_age_seconds
    /\ last.known[LastPath].data.issues = <<>>
    /\ AnsweredFromCache(last.known[LastPath].data)

---------------------------------------------------------------------------
(* validate_file called twice on one input, with cache operations and     *)
(* validations of other inputs in between.                                *)

TwiceInputs ==
    {<<BufPdf, NamePdf>>, <<BufPdf, NamePdfUpper>>, <<BufDocx, NamePdf>>,
     <<BufScript, NamePdf>>, <<BufBigDocx, NameDocx>>, <<BufZip78, NameDocx>>}

InitTwice ==
    /\ \E input \in TwiceInputs : v_content = input[1] /\ v_filename = input[2]
    /\ v_result = NotCalled
    /\ CacheInit
    /\ HarnessIdle

\* Each of the two calls is recorded with the cache directory it ran on
ValidateFirst ==
    /\ ~v_result.called
    /\ v_result' = validate_file(v_content, v_filename) @@ [cache |-> files]
    /\ UNCHANGED <<v_content, v_filename, files, now, last, enabled, h_vars>>

ValidateOther(content, filename) ==
    /\ last' = [op |-> "validate_file", content |-> content, filename |-> filename,
                result |-> validate_file(content, filename)]
    /\ UNCHANGED <<files, now, enabled, v_vars, h_vars>>

ValidateAgain ==
    /\ v_result.called
    /\ ~v_again.called
    /\ v_again' = validate_file(v_content, v_filename) @@ [cache |-> files]
    /\ UNCHANGED <<files, now, last, enabled, v_vars, p_vars, e_vars, s_vars, x_vars>>

NextTwice ==
    \/ ValidateFirst
    \/ ValidateAgain
    \/ \E input \in TwiceInputs : ValidateOther(input[1], input[2])
    \/ \E pair \in FaultyPairs : Get(pair[1], pair[2], "none")
    \/ \E pair \in FaultyPairs : Set(pair[1], pair[2], PayloadA, "none")
    \/ ClearAll

SpecTwice == InitTwice /\ [][NextTwice]_vars

=============================================================================
